---- MODULE Spec2Model ----
(***************************************************************************)
(* The OTA update engine of the MusicalBox stepper firmware.               *)
(*                                                                         *)
(* Two implementations of the engine live in the repository and both are   *)
(* modelled: update() of ota.c, which returns -err to app_main, and the    *)
(* task-based ota_task() of stepper.c, which ends in task_fatal_error(),   *)
(* infinite_loop() or esp_restart().  The variable engine says which of    *)
(* the two is running.  The HTTP transport, the partition table and the    *)
(* flash write session of the esp_ota layer are the environment.           *)
(***************************************************************************)
EXTENDS Integers, Sequences, FiniteSets, TLC

(***************************************************************************)
(* Program constants.                                                      *)
(***************************************************************************)
\* #define OTA_BUFFER_SIZE 1024: the largest read asked of the transport
OTA_BUFFER_SIZE == 1024
\* #define OTA_FILE_HEADER_BUFFER_SIZE 8192: capacity of g_header_buffer
OTA_FILE_HEADER_BUFFER_SIZE == 8192
\* sizeof(esp_image_header_t) as documented above has_complete_header()
ImageHeaderSize == 8
\* sizeof(esp_image_segment_header_t), same comment
SegmentHeaderSize == 8
\* sizeof(esp_app_desc_t), same comment
AppDescSize == 256
\* the "+ 1024" safety margin of has_complete_header()
SafetyMargin == 1024
\* int32_t max_zero_reads = 10
max_zero_reads == 10

(***************************************************************************)
(* Bounds of the model: the image sizes served.                            *)
(***************************************************************************)
\* an image that ends before the header threshold
TinyImage == 1000
\* an image with a short body after the header
MidImage == 2600
\* the image of the end-to-end scenario
E2EImageSize == 50000
\* the largest microstep resolution asked of the driver
MaxResolution == 300

\* the echo requests of one ping session
PingCount == 5

\* the ticks in the 60 s that xSemaphoreTake waits for the semaphore
WaitTicks == 3

\* the round-trip times of the replies, in ms
ElapsedTimes == { 1, 30, 200 }

\* the resolutions asked of the driver: below 1, each side of a power of
\* two, the cap of 256 and beyond
Resolutions == { -1, 0, 1, 2, 3, 16, 255, 256, 257, MaxResolution }

\* esp_app_desc_t.version as a fixed-width field; 0 is the terminator.  The
\* second and third fields differ only after the terminator.
VersionFields == { <<1, 0, 0>>, <<1, 0, 2>>, <<2, 0, 0>> }

\* the version fields of the images served: the partitions' fields range over
\* the equal, the differing-after-the-terminator and the different field
CandidateFields == { <<1, 0, 0>> }

\* esp_ota_get_last_invalid_partition() == NULL
NoPartition == <<>>

\* errno after a read: "none" stands for every value but the two tested
Errnos == { "none", "ECONNRESET", "ENOTCONN" }

VARIABLES
    \* ---- environment ----
    engine,             \* "update" (ota.c) or "ota_task" (stepper.c)
    candidate,          \* version field of the image served
    running_version,    \* version field of the running partition
    last_invalid,       \* version field of the last invalid partition, or NoPartition
    running_desc_ok,    \* esp_ota_get_partition_description(running) == ESP_OK
    invalid_desc_ok,    \* esp_ota_get_partition_description(last_invalid_app) == ESP_OK
    total,              \* size of the image served
    received,           \* bytes delivered by positive reads so far
    errno,              \* errno as left by the last read
    boot_selector,      \* "running" or "update": the partition the boot data names
    \* ---- flash write session (esp_ota layer) ----
    session,            \* "none", "open", "ended", "end_failed", "aborted"
    session_partition,  \* the partition the session was opened against, or "none"
    flash_written,      \* bytes accepted by esp_ota_write in the session
    stream_in_order,    \* every accepted write began at the image offset flash had reached
    begin_calls,        \* successful esp_ota_begin calls
    end_calls,          \* esp_ota_end calls
    abort_calls,        \* esp_ota_abort calls
    set_boot_calls,     \* successful esp_ota_set_boot_partition calls
    gate_calls,         \* parse_firmware_header calls
    \* ---- HTTP client ----
    client,             \* "null", "open", "cleaned"
    \* ---- locals of update() / ota_task() ----
    pc,
    err,
    update_handle,      \* 0, or 1 for the handle esp_ota_begin returned
    binary_file_length,
    image_header_was_checked,
    header_accumulated,
    zero_read_count,
    transfer_complete,
    same_version_detected,
    connection_error,
    \* ---- observations ----
    verdict,            \* branch parse_firmware_header took: "none" before it ran
    outcomes,           \* terminal outcomes the run has signalled
    log,                \* storage and transport events in order
    last_read,          \* "negative", "zero" or "positive": the last read; "none" before it
    boot_log,           \* the steps app_main has taken since boot, in order
    \* ---- TMC2209 driver (tmc2209.c) and the device behind the UART ----
    g_uart,             \* the UART in use, -1 when the driver is not initialised
    chopconf,           \* the CHOPCONF register (0x6c) of the device, 32 bits
    tmc_call,           \* the last tmc2209_ function called and its circumstances
    tmc_ret,            \* what that call returned
    ihold_irun,         \* the IHOLD_IRUN register (0x10) of the device, 32 bits
    gconf,              \* the GCONF register (0x00) of the device, 32 bits
    cur_call,           \* the last call of tmc2209_set_current: what was asked
    \* ---- ping session (ping.c) ----
    ping_pc,            \* "none", "running", "ended", "trapped"
    transmitted,        \* ESP_PING_PROF_REQUEST: echo requests sent
    replies,            \* ESP_PING_PROF_REPLY: replies received (received in ping.c)
    total_time_ms,      \* ESP_PING_PROF_DURATION: sum of the round-trip times
    divisor,            \* what cmd_ping_on_ping_end divided by; -1 before it ran
    \* ---- networking (network.c) ----
    net_pc,             \* "idle", "waiting" in xSemaphoreTake, "returned"
    net_ret,            \* what network_init returned
    g_wifi_semaphore,   \* "NULL", or the binary semaphore: "empty" or "given"
    g_sta_netif,        \* "NULL" or "sta"
    wifi,               \* "off", "started", "connecting", "associated", "got_ip"
    gave_in_time,       \* the got-IP callback gave the semaphore before the wait ended
    net_err,            \* the local err of network_init
    net_args,           \* the ssid, password and auth_mode network_init was given
    net_clock           \* the ticks xSemaphoreTake has waited

vars == << engine, candidate, running_version, last_invalid, running_desc_ok,
           invalid_desc_ok, total, received, errno, boot_selector, session,
           session_partition, stream_in_order,
           flash_written, begin_calls, end_calls, abort_calls, set_boot_calls,
           gate_calls,
           client, pc, err, update_handle, binary_file_length,
           image_header_was_checked, header_accumulated, zero_read_count,
           transfer_complete, same_version_detected, connection_error,
           verdict, outcomes, log, last_read, boot_log,
           g_uart, chopconf, tmc_call, tmc_ret, ihold_irun, gconf, cur_call,
           ping_pc, transmitted, replies, total_time_ms, divisor,
           net_pc, net_ret, g_wifi_semaphore, g_sta_netif, wifi, gave_in_time,
           net_err, net_args, net_clock >>

cur_vars == << ihold_irun, gconf, cur_call >>

tmc_vars == << g_uart, chopconf, tmc_call, tmc_ret, ihold_irun, gconf, cur_call >>

ping_vars == << ping_pc, transmitted, replies, total_time_ms, divisor >>

net_vars == << net_pc, net_ret, g_wifi_semaphore, g_sta_netif, wifi, gave_in_time,
           net_err, net_args, net_clock >>

env_vars == << engine, candidate, running_version, last_invalid,
               running_desc_ok, invalid_desc_ok, total >>

\* everything but the driver and its device
ota_vars == << env_vars, received, errno, boot_selector, session,
               session_partition, stream_in_order,
               flash_written, begin_calls, end_calls, abort_calls,
               set_boot_calls, gate_calls, client, pc, err, update_handle,
               binary_file_length, image_header_was_checked,
               header_accumulated, zero_read_count, transfer_complete,
               same_version_detected, connection_error, verdict, outcomes,
               log, last_read, boot_log >>

Min(a, b) == IF a <= b THEN a ELSE b

\* log with event e appended; a run of writes is kept as one "write", and
\* the call of the version gate, which touches neither storage nor
\* transport, is counted in gate_calls and not logged
Logged(l, e) ==
    IF e = "gate" THEN l
    ELSE IF e = "write" /\ Len(l) > 0 /\ l[Len(l)] = "write" THEN l
    ELSE Append(l, e)

RECURSIVE LoggedAll(_, _)
LoggedAll(l, es) ==
    IF es = <<>> THEN l ELSE LoggedAll(Logged(l, Head(es)), Tail(es))

(***************************************************************************)
(* Transport: esp_http_client_read and                                     *)
(* esp_http_client_is_complete_data_received.                              *)
(***************************************************************************)
\* the lengths a read delivers when that much is left: a full buffer, or a
\* short read, which is just the structured header while the header is being
\* accumulated and half a buffer afterwards (the last read of an image
\* delivers what is left)
ReadSizes(accumulating) ==
    IF accumulating
    THEN { ImageHeaderSize + SegmentHeaderSize + AppDescSize, OTA_BUFFER_SIZE }
    ELSE { OTA_BUFFER_SIZE \div 2, OTA_BUFFER_SIZE }

\* what one esp_http_client_read(client, buf, OTA_BUFFER_SIZE) may return when
\* rem bytes of the image are still to come: a positive length of at most
\* OTA_BUFFER_SIZE, 0 (nothing now, or the end), or a negative error.  errno
\* is read by the engine only after a zero read with the header checked.
ReadOutcomes(rem, checked) ==
    { [n |-> Min(Min(c, OTA_BUFFER_SIZE), rem), errno |-> "none"] :
            c \in { s \in ReadSizes(~checked) : rem > 0 } }
    \cup { [n |-> 0, errno |-> e] : e \in IF checked THEN Errnos ELSE { "none" } }
    \cup { [n |-> -1, errno |-> "none"] }

\* the branch of the loop a read of n takes
read_kind(n) == IF n < 0 THEN "negative" ELSE IF n = 0 THEN "zero" ELSE "positive"

\* esp_http_client_is_complete_data_received(client): every byte of the
\* response body has been read
is_complete_data_received == received = total

(***************************************************************************)
(* Header accumulator and version gate.                                    *)
(***************************************************************************)
\* has_complete_header_min_size(): the header threshold
has_complete_header_min_size ==
    ImageHeaderSize + SegmentHeaderSize + AppDescSize + SafetyMargin

\* a gate that waits until the header buffer is full
has_complete_header_when_full(accumulated_size) ==
    accumulated_size >= OTA_FILE_HEADER_BUFFER_SIZE

\* a gate that fires on the bare 272 bytes, without the safety margin
has_complete_header_no_margin(accumulated_size) ==
    accumulated_size >= ImageHeaderSize + SegmentHeaderSize + AppDescSize

\* has_complete_header(accumulated_size)
has_complete_header(accumulated_size) ==
    accumulated_size >= (ImageHeaderSize + SegmentHeaderSize + AppDescSize) + SafetyMargin

\* header_accumulated + data_read <= OTA_FILE_HEADER_BUFFER_SIZE
fits_header_buffer(accumulated, data_read) ==
    accumulated + data_read <= OTA_FILE_HEADER_BUFFER_SIZE

\* an accumulator that copies without asking whether the chunk fits
accumulate_unguarded(accumulated, data_read) == accumulated + data_read

\* header_accumulated after a chunk of data_read bytes has arrived: the chunk
\* is copied to g_header_buffer + header_accumulated only if it fits
accumulate(accumulated, data_read) ==
    IF fits_header_buffer(accumulated, data_read)
    THEN accumulated + data_read ELSE accumulated

\* memcmp(a, b, sizeof(new_app_info.version)): the whole fixed-width field
memcmp(a, b) == IF a = b THEN 0 ELSE 1

\* what running_app_info.version may hold when the gate compares it: the
\* partition's field when the description was read, anything otherwise
\* (the struct is left uninitialised)
running_app_info ==
    IF running_desc_ok THEN { running_version } ELSE VersionFields

\* the same for invalid_app_info.version; only read when a last invalid
\* partition exists
invalid_app_info ==
    IF last_invalid = NoPartition THEN { NoPartition }
    ELSE IF invalid_desc_ok THEN { last_invalid } ELSE VersionFields

\* a flush of the application descriptor's part of the buffer only
flushed_descriptor_only(buffer_len) ==
    ImageHeaderSize + SegmentHeaderSize + AppDescSize

\* esp_ota_write(*update_handle, buffer, buffer_len): the header flush passes
\* the whole accumulated buffer
flushed_length(buffer_len) == buffer_len

\* the offset in the image of g_header_buffer[0], when the buffer holds
\* accumulated bytes and received_so_far bytes of the image have arrived:
\* each chunk was copied to g_header_buffer + header_accumulated
header_buffer_start(received_so_far, accumulated) == received_so_far - accumulated

\* parse_firmware_header(): 1 proceed, 0 no update needed, -1 error.
\* events are the esp_ota calls it made, wrote the bytes it flushed.
parse_firmware_header(buffer_len, new_v, run_v, inv_v, begin_ok, write_ok) ==
    IF last_invalid # NoPartition /\ memcmp(inv_v, new_v) = 0
    THEN [ret |-> -1, branch |-> "reject", handle |-> 0,
          events |-> <<"gate">>, wrote |-> 0]
    ELSE IF memcmp(new_v, run_v) = 0
    THEN [ret |-> 0, branch |-> "skip", handle |-> 0,
          events |-> <<"gate">>, wrote |-> 0]
    ELSE IF ~begin_ok
    THEN [ret |-> -1, branch |-> "proceed", handle |-> 0,
          events |-> <<"gate">>, wrote |-> 0]
    ELSE IF buffer_len > 0 /\ ~write_ok
    THEN [ret |-> -1, branch |-> "proceed", handle |-> 1,
          events |-> <<"gate", "begin", "write_failed", "abort">>, wrote |-> 0]
    ELSE [ret |-> 1, branch |-> "proceed", handle |-> 1,
          events |-> IF buffer_len > 0 THEN <<"gate", "begin", "write">>
                                       ELSE <<"gate", "begin">>,
          wrote |-> flushed_length(buffer_len)]

\* a header that is marked as checked whatever the gate returned
header_always_checked(parse_result) == TRUE

\* a header that is never marked as checked
header_never_checked(parse_result) == FALSE

\* image_header_was_checked = true, only when parse_result == 1
header_was_checked(parse_result) == parse_result = 1

\* a body write whose result is dropped
write_result_dropped(write_ok) == "ESP_OK"

\* err = esp_ota_write(update_handle, buffer, data_read) on a body chunk
write_result(write_ok) == IF write_ok THEN "ESP_OK" ELSE "ESP_ERR_FLASH_OP_FAIL"

\* a header flush that is left out of binary_file_length
header_flush_not_counted(accumulated) == 0

\* binary_file_length = header_accumulated, once the gate said proceed
header_flush_length(accumulated) == accumulated

\* a counter that starts again from 0 instead of reaching the ceiling
zero_read_count_wraps(count) == (count + 1) % max_zero_reads

\* zero_read_count++, on every zero-length read
zero_read_count_incremented(count) == count + 1

\* a counter that a positive read leaves as it is
zero_read_count_kept(count) == count

\* zero_read_count = 0, on every positive read
zero_read_count_reset(count) == 0

\* an off-by-one ceiling: the count must pass max_zero_reads
too_many_zero_reads_late(count) == count > max_zero_reads

\* zero_read_count >= max_zero_reads
too_many_zero_reads(count) == count >= max_zero_reads

\* an errno that is not looked at
connection_reset_ignored(e) == FALSE

\* errno == ECONNRESET || errno == ENOTCONN
connection_closed(e) == e = "ECONNRESET" \/ e = "ENOTCONN"

\* a policy that tests the ceiling before the transport's answer
zero_read_class_ceiling_first(checked, complete, e, count) ==
    IF checked /\ connection_closed(e) THEN "connection_closed"
    ELSE IF too_many_zero_reads(count) THEN "too_many_zero_reads"
    ELSE IF complete THEN (IF checked THEN "transfer_complete" ELSE "eof_before_header")
    ELSE "transient"

\* the zero-read policy of the read loop, after zero_read_count++
zero_read_class(checked, complete, e, count) ==
    IF ~checked
    THEN IF complete THEN "eof_before_header"
         ELSE IF too_many_zero_reads(count) THEN "too_many_zero_reads"
         ELSE "transient"
    ELSE IF connection_closed(e) THEN "connection_closed"
         ELSE IF complete THEN "transfer_complete"
         ELSE IF too_many_zero_reads(count) THEN "too_many_zero_reads"
         ELSE "transient"

(***************************************************************************)
(* The flash write session, driven by the esp_ota calls an action made.    *)
(***************************************************************************)
Count(es, e) == Cardinality({ i \in 1..Len(es) : es[i] = e })

RECURSIVE session_after(_, _)
session_after(s, es) ==
    IF es = <<>> THEN s
    ELSE LET e == Head(es)
             s1 == CASE e = "begin" -> "open"
                     [] e = "abort" -> IF s = "open" THEN "aborted" ELSE s
                     [] e = "end_ok" -> IF s = "open" THEN "ended" ELSE s
                     [] e = "end_failed" -> IF s = "open" THEN "end_failed" ELSE s
                     [] OTHER -> s
         IN session_after(s1, Tail(es))

\* running = esp_ota_get_running_partition()
running == "running"

\* update_partition = esp_ota_get_next_update_partition(NULL)
update_partition == "update"

\* a session opened against the partition the device runs from
begin_on_running == running

\* esp_ota_begin(update_partition, OTA_WITH_SEQUENTIAL_WRITES, update_handle):
\* the partition parse_firmware_header opens the session against
begin_partition == update_partition

\* the effect of the calls es, which wrote n bytes taken from offset src of
\* the image, on everything outside the engine's locals
EffectsFrom(es, n, src) ==
    /\ session' = session_after(session, es)
    /\ stream_in_order' = (stream_in_order /\ (n > 0 => src = flash_written))
    /\ session_partition' = IF Count(es, "begin") > 0 THEN begin_partition
                            ELSE session_partition
    /\ flash_written' = flash_written + n
    /\ begin_calls' = begin_calls + Count(es, "begin")
    /\ end_calls' = end_calls + Count(es, "end_ok") + Count(es, "end_failed")
    /\ abort_calls' = abort_calls + Count(es, "abort")
    /\ set_boot_calls' = set_boot_calls + Count(es, "set_boot")
    /\ gate_calls' = gate_calls + Count(es, "gate")
    /\ boot_selector' = IF Count(es, "set_boot") > 0 THEN "update" ELSE boot_selector
    /\ client' = IF Count(es, "http_cleanup") > 0 THEN "cleaned" ELSE client
    /\ log' = LoggedAll(log, es)

\* the effect of calls that write nothing
Effects(es, n) == EffectsFrom(es, n, flash_written)

\* the value of an esp_err_t code: ESP_OK is 0, the generic ESP_FAIL is -1,
\* every other code is positive
esp_err_value(e) ==
    CASE e = "ESP_OK" -> 0
      [] e = "ESP_FAIL" -> -1
      [] e = "ESP_ERR_NO_MEM" -> 257
      [] e = "ESP_ERR_INVALID_ARG" -> 258
      [] e = "ESP_ERR_INVALID_STATE" -> 259
      [] e = "ESP_ERR_NOT_FOUND" -> 261
      [] e = "ESP_ERR_TIMEOUT" -> 263
      [] e = "ESP_ERR_INVALID_RESPONSE" -> 264
      [] e = "ESP_ERR_INVALID_CRC" -> 265
      [] e = "ESP_ERR_NOT_FINISHED" -> 268
      [] e = "ESP_ERR_OTA_SELECT_INFO_INVALID" -> 5378
      [] e = "ESP_ERR_OTA_VALIDATE_FAILED" -> 5379
      [] e = "ESP_ERR_FLASH_OP_FAIL" -> 24577
      [] e = "ESP_ERR_HTTP_CONNECT" -> 28674

(***************************************************************************)
(* The TMC2209 driver, tmc2209.c, and the device at the other end of the   *)
(* UART.  Return values are int32_t; the errors the driver sets itself are *)
(* esp_err_t codes, negated or not as the code has them.                   *)
(***************************************************************************)
\* static const int32_t g_microstep_table[], indexed from 0 in the code
g_microstep_table == << 256, 128, 64, 32, 16, 8, 4, 2, 1 >>

\* sizeof(g_microstep_table) / sizeof(g_microstep_table[0])
microstep_table_length == Len(g_microstep_table)

\* a uint32_t is kept as its two 16-bit halves, hi and lo
uint32(hi, lo) == [hi |-> hi, lo |-> lo]

\* (data >> 24) & 0x0f: the MRES field, bits 24 to 27 of CHOPCONF
MRES(data) == (data.hi \div 2^8) % 16

\* data &= 0xf0ffffff; data |= ((uint32_t) index) << 24
with_MRES(data, index) ==
    [data EXCEPT !.hi = data.hi - MRES(data) * 2^8 + index * 2^8]

\* (esp_err_t) data: a uint32_t seen as int32_t, negative when bit 31 is set
to_esp_err_t(data) ==
    IF data.hi >= 2^15 THEN (data.hi - 2^16) * 2^16 + data.lo
                       ELSE data.hi * 2^16 + data.lo

\* uint32_t data = err, for an err that is not negative
to_uint32(e) == uint32(e \div 2^16, e % 2^16)

\* no tmc2209_set_current yet
NoCurrentCall ==
    [done |-> FALSE, failed |-> FALSE, r_sense_mohm |-> 0, run_current_ma |-> 0,
     hold_current_percent |-> 0, quotient |-> 0]

\* the device's current registers after its reset: IHOLD_IRUN with IRUN 31,
\* IHOLD 16 and IHOLDDELAY 1 (0x00011f10), GCONF with I_scale_analog set
\* (0x00000101); no call yet
CurrentAtBoot ==
    /\ ihold_irun = uint32(1, 31 * 2^8 + 16)
    /\ gconf = uint32(0, 2^8 + 1)
    /\ cur_call = NoCurrentCall

\* what uart_write_bytes() does with a datagram: sends it all, sends only
\* part of it, or fails with -1
UartWriteResults == { "all", "short", "error" }

\* what uart_read_bytes() gets for a reply of 8 bytes: the datagram, a
\* datagram with a bad CRC, only four bytes, nothing (timeout), or -1
UartReadResults == { "datagram", "bad_crc", "four_bytes", "timeout", "error" }

\* the addresses used: one in range (0 to 3) and one out of range
TmcAddresses == { 0, 4 }

\* CHOPCONF values the device may hold: the reset value 0x10000053, the same
\* with a reserved MRES of 9, the same with bit 31 (diss2vs) set, and 0
ChopconfValues ==
    { uint32(2^12, 83), uint32(2^12 + 9 * 2^8, 83), uint32(2^15 + 2^12, 83),
      uint32(0, 0) }

\* no tmc2209_ function has been called yet
NoCall ==
    [fn |-> "none", failed |-> FALSE, before |-> uint32(0, 0), arg |-> 0, after_set |-> -1]

\* write(address, reg, data): the number of data bytes sent (length, 0 for
\* a read request), a short count, -1, or -ESP_ERR_INVALID_ARG
write(address, reg, length, w) ==
    IF g_uart >= 0 /\ address < 4 /\ reg < 128
    THEN CASE w = "all" -> length
           [] w = "short" -> 2
           [] OTHER -> -1
    ELSE 0 - esp_err_value("ESP_ERR_INVALID_ARG")

\* read(address, reg, &data): err is what it returns, data what it stored;
\* value is the register's content in the device
read(address, reg, w, r, value) ==
    LET rc == write(address, reg, 0, w) IN
    IF rc # 0 THEN [err |-> rc, data |-> uint32(0, 0)]
    ELSE CASE r = "datagram" -> [err |-> 4, data |-> value]
           [] r = "bad_crc" -> [err |-> 0 - esp_err_value("ESP_ERR_INVALID_CRC"),
                                data |-> uint32(0, 0)]
           [] r = "four_bytes" -> [err |-> 4, data |-> uint32(0, 0)]
           [] r = "timeout" -> [err |-> 0, data |-> uint32(0, 0)]
           [] OTHER -> [err |-> -1, data |-> uint32(0, 0)]

\* write_reg(address, reg, data)
write_reg(address, reg, w) ==
    LET rc == write(address, reg, 4, w) IN
    IF rc = 4 THEN 0
    ELSE IF rc >= 0 THEN 0 - esp_err_value("ESP_ERR_INVALID_RESPONSE") ELSE rc

\* read_reg(address, reg): the register's value as an esp_err_t, or an error
read_reg(address, reg, w, r, value) ==
    LET rd == read(address, reg, w, r, value) IN
    IF rd.err = 4 THEN to_esp_err_t(rd.data)
    ELSE IF rd.err >= 0 THEN 0 - esp_err_value("ESP_ERR_INVALID_RESPONSE") ELSE rd.err

\* the for loop of tmc2209_set_microstep_resolution(): the first index whose
\* entry is not above resolution, or the table's length
microstep_index(resolution) ==
    CHOOSE index \in 0..microstep_table_length :
        /\ index = microstep_table_length \/ g_microstep_table[index + 1] <= resolution
        /\ \A j \in 0..(index - 1) : g_microstep_table[j + 1] > resolution

\* the body of tmc2209_set_microstep_resolution(): ret is what it returns,
\* reg the content of CHOPCONF in the device afterwards
set_microstep_resolution(address, resolution, w1, r, w2, value) ==
    LET index == microstep_index(resolution) IN
    IF index < microstep_table_length
    THEN LET rc == read_reg(address, 108, w1, r, value) IN
         IF rc >= 0
         THEN LET data == with_MRES(to_uint32(rc), index)
                  werr == write_reg(address, 108, w2)
              IN [ret |-> IF werr = 0 THEN g_microstep_table[index + 1] ELSE werr,
                  reg |-> IF write(address, 108, 4, w2) = 4 THEN data ELSE value]
         ELSE [ret |-> rc, reg |-> value]
    ELSE [ret |-> esp_err_value("ESP_ERR_INVALID_ARG"), reg |-> value]

\* the body of tmc2209_get_microstep_resolution()
get_microstep_resolution(address, w, r, value) ==
    LET rc == read_reg(address, 108, w, r, value) IN
    IF rc >= 0
    THEN IF MRES(to_uint32(rc)) < microstep_table_length
         THEN g_microstep_table[MRES(to_uint32(rc)) + 1]
         ELSE esp_err_value("ESP_ERR_INVALID_RESPONSE")
    ELSE rc

\* the body of tmc2209_start(): the GCONF defaults are written to register 0
start(address, w) ==
    IF g_uart >= 0 THEN write_reg(address, 0, w)
    ELSE esp_err_value("ESP_ERR_INVALID_STATE")

\* the link carried the request, and the reply if there is one
link_ok(w, r) == w = "all" /\ r = "datagram"

(***************************************************************************)
(* Initial state: the device has booted, networking is up, no session.     *)
(***************************************************************************)
\* the engine and the flash write session as they are at boot
EngineAtBoot ==
    /\ received = 0
    /\ errno = "none"
    /\ boot_selector = "running"
    /\ session = "none"
    /\ session_partition = "none"
    /\ stream_in_order = TRUE
    /\ flash_written = 0
    /\ begin_calls = 0
    /\ end_calls = 0
    /\ abort_calls = 0
    /\ set_boot_calls = 0
    /\ gate_calls = 0
    /\ client = "null"
    /\ pc = IF engine = "update" THEN "boot" ELSE "start"
    /\ boot_log = <<>>
    /\ err = "ESP_OK"
    /\ update_handle = 0
    /\ binary_file_length = 0
    /\ image_header_was_checked = FALSE
    /\ header_accumulated = 0
    /\ zero_read_count = 0
    /\ transfer_complete = FALSE
    /\ same_version_detected = FALSE
    /\ connection_error = FALSE
    /\ verdict = "none"
    /\ outcomes = {}
    /\ log = <<>>
    /\ last_read = "none"

\* the driver as it is at boot: not initialised, CHOPCONF at its reset value
\* 0x10000053
DriverAtBoot ==
    /\ CurrentAtBoot
    /\ g_uart = -1
    /\ chopconf = uint32(2^12, 83)
    /\ tmc_call = NoCall
    /\ tmc_ret = 0

\* no ping session yet
PingAtBoot ==
    /\ ping_pc = "none"
    /\ transmitted = 0
    /\ replies = 0
    /\ total_time_ms = 0
    /\ divisor = -1

\* networking at boot: static SemaphoreHandle_t g_wifi_semaphore = NULL,
\* static esp_netif_t *g_sta_netif = NULL, Wi-Fi not started
NetIdle ==
    /\ net_pc = "idle"
    /\ net_ret = 0
    /\ g_wifi_semaphore = "NULL"
    /\ g_sta_netif = "NULL"
    /\ wifi = "off"
    /\ gave_in_time = FALSE
    /\ net_err = "ESP_ERR_INVALID_ARG"
    /\ net_clock = 0

\* what app_main hands to network_init: the configured SSID and password,
\* WIFI_AUTH_OPEN
AppMainNetArgs == [ssid |-> "fits", password |-> "empty", auth_open |-> TRUE]

NetAtBoot == NetIdle /\ net_args = AppMainNetArgs

Init ==
    /\ engine \in { "update", "ota_task" }
    /\ \/ /\ total \in { TinyImage, has_complete_header_min_size, MidImage }
          /\ candidate \in CandidateFields
          /\ running_version \in VersionFields
          /\ last_invalid \in VersionFields \cup { NoPartition }
          /\ running_desc_ok \in BOOLEAN
          /\ invalid_desc_ok \in IF last_invalid = NoPartition THEN { FALSE } ELSE BOOLEAN
       \/ /\ total = E2EImageSize
          /\ candidate = <<1, 0, 0>>
          /\ running_version = <<2, 0, 0>>
          /\ last_invalid \in { NoPartition, <<1, 0, 2>> }
          /\ running_desc_ok = TRUE
          /\ invalid_desc_ok = (last_invalid # NoPartition)
    /\ EngineAtBoot
    /\ DriverAtBoot
    /\ PingAtBoot
    /\ NetAtBoot

\* the driver's specification: the driver is exercised on its own, call by
\* call, with the engine left where it is at boot
TmcInit ==
    /\ engine = "update"
    /\ total = TinyImage
    /\ candidate = <<1, 0, 0>>
    /\ running_version = <<1, 0, 0>>
    /\ last_invalid = NoPartition
    /\ running_desc_ok = TRUE
    /\ invalid_desc_ok = FALSE
    /\ EngineAtBoot
    /\ CurrentAtBoot
    /\ g_uart = -1
    /\ chopconf \in ChopconfValues
    /\ tmc_call = NoCall
    /\ tmc_ret = 0
    /\ PingAtBoot
    /\ NetAtBoot

\* the inputs of one loop iteration: the read, what the two descriptor
\* structs hold if the gate runs, and whether esp_ota_begin / esp_ota_write
\* succeed if they are called
gate_runs(n) ==
    /\ n > 0
    /\ ~image_header_was_checked
    /\ has_complete_header(accumulate(header_accumulated, n))

\* the inputs that can make a difference to the iteration that reads rd
InputsFor(rd) ==
    LET gate == gate_runs(rd.n)
        writes == gate \/ (rd.n > 0 /\ image_header_was_checked)
    IN { [rd |-> rd, run_v |-> rv, inv_v |-> iv, begin_ok |-> b, write_ok |-> w] :
            rv \in IF gate THEN running_app_info ELSE { running_version },
            iv \in IF gate THEN invalid_app_info ELSE { last_invalid },
            b \in IF gate THEN BOOLEAN ELSE { TRUE },
            w \in IF writes THEN BOOLEAN ELSE { TRUE } }

IterationInputs == UNION { InputsFor(rd) : rd \in ReadOutcomes(total - received, image_header_was_checked) }

(***************************************************************************)
(* update() of ota.c                                                       *)
(***************************************************************************)
\* what esp_http_client_open() may return when it fails: a connect error,
\* or the generic ESP_FAIL
OpenErrors == { "ESP_ERR_HTTP_CONNECT", "ESP_FAIL" }

\* return -err: what update(), and so ota_update(), hands to its caller
update_return(e) == 0 - esp_err_value(e)

\* lines 219-250: open the HTTP connection, resolve the update partition
update_start ==
    /\ pc = "start" /\ engine = "update"
    /\ \E res \in { "ok", "init_failed" } \cup OpenErrors :
        /\ client' = IF res = "init_failed" THEN "null" ELSE "open"
        /\ err' = CASE res = "ok" -> "ESP_OK"
                    [] res = "init_failed" -> "ESP_ERR_NO_MEM"
                    [] OTHER -> res
        /\ outcomes' = IF res = "ok" THEN outcomes ELSE outcomes \cup { "failed" }
        /\ pc' = IF res = "ok" THEN "loop" ELSE "finish"
    /\ UNCHANGED << tmc_vars, ping_vars, net_vars, env_vars, boot_log, received, errno, boot_selector, session,
                    session_partition, stream_in_order, flash_written, begin_calls, end_calls, abort_calls,
                    set_boot_calls, gate_calls, update_handle, binary_file_length,
                    image_header_was_checked, header_accumulated,
                    zero_read_count, transfer_complete, same_version_detected,
                    connection_error, verdict, log, last_read >>

\* one iteration of the while loop, lines 252-350, as the new values of the
\* locals, the esp_ota calls made (events) and the bytes written (wrote)
update_iteration(in) ==
    LET n == in.rd.n
        same == [err |-> err, checked |-> image_header_was_checked,
                 ha |-> header_accumulated, bfl |-> binary_file_length,
                 zrc |-> zero_read_count, tc |-> transfer_complete,
                 svd |-> same_version_detected, handle |-> update_handle,
                 events |-> <<>>, wrote |-> 0, src |-> 0, branch |-> verdict,
                 outs |-> {}]
    IN
    IF n < 0 THEN
        [same EXCEPT !.err = "ESP_ERR_INVALID_RESPONSE", !.outs = { "failed" }]
    ELSE IF n > 0 /\ ~image_header_was_checked THEN
        LET fits == fits_header_buffer(header_accumulated, n)
            ha1 == accumulate(header_accumulated, n)
            err1 == IF fits THEN err ELSE "ESP_ERR_NO_MEM"
            g == parse_firmware_header(ha1, candidate, in.run_v, in.inv_v,
                                       in.begin_ok, in.write_ok)
        IN IF has_complete_header(ha1) THEN
               [same EXCEPT
                  !.zrc = zero_read_count_reset(zero_read_count), !.ha = ha1,
                  !.err = IF g.ret = -1 THEN "ESP_ERR_INVALID_RESPONSE" ELSE err1,
                  !.checked = header_was_checked(g.ret),
                  !.bfl = IF g.ret = 1 THEN header_flush_length(ha1) ELSE binary_file_length,
                  !.svd = (g.ret = 0),
                  !.handle = IF g.handle # 0 THEN g.handle ELSE update_handle,
                  !.events = g.events, !.wrote = g.wrote,
                  !.src = header_buffer_start(received + n, ha1),
                  !.branch = g.branch,
                  !.outs = CASE g.branch = "reject" -> { "rejected-known-bad" }
                             [] g.branch = "skip" -> { "no-update-needed" }
                             [] g.ret = -1 \/ ~fits -> { "failed" }
                             [] OTHER -> {}]
           ELSE [same EXCEPT !.zrc = zero_read_count_reset(zero_read_count),
                             !.ha = ha1, !.err = err1,
                             !.outs = IF fits THEN {} ELSE { "failed" }]
    ELSE IF n > 0 THEN
        [same EXCEPT
           !.zrc = zero_read_count_reset(zero_read_count),
           !.err = write_result(in.write_ok),
           !.bfl = binary_file_length + n,
           !.events = IF in.write_ok THEN <<"write">> ELSE <<"write_failed">>,
           !.wrote = IF in.write_ok THEN n ELSE 0,
           !.src = received,
           !.outs = IF in.write_ok THEN {} ELSE { "failed" }]
    ELSE
        LET count == zero_read_count_incremented(zero_read_count)
            class == zero_read_class(image_header_was_checked,
                                     is_complete_data_received, in.rd.errno, count)
        IN [same EXCEPT
              !.zrc = count,
              !.err = CASE class = "eof_before_header" -> "ESP_ERR_NOT_FINISHED"
                        [] class = "connection_closed" -> "ESP_ERR_NOT_FINISHED"
                        [] class = "too_many_zero_reads" -> "ESP_ERR_INVALID_RESPONSE"
                        [] OTHER -> err,
              !.tc = (class = "transfer_complete"),
              !.events = IF class = "transfer_complete" THEN <<"complete">> ELSE <<>>,
              !.outs = IF class \in { "transient", "transfer_complete" }
                       THEN {} ELSE { "failed" }]

\* a loop that goes on reading whatever err is
loop_ignores_err(e, complete, same_version) == ~complete /\ ~same_version

\* while (err == ESP_OK && !transfer_complete && !same_version_detected)
loop_continues(e, complete, same_version) ==
    e = "ESP_OK" /\ ~complete /\ ~same_version

update_loop ==
    /\ pc = "loop" /\ engine = "update"
    /\ \E in \in IterationInputs :
        LET r == update_iteration(in) IN
        /\ received' = received + (IF in.rd.n > 0 THEN in.rd.n ELSE 0)
        /\ errno' = in.rd.errno
        /\ last_read' = read_kind(in.rd.n)
        /\ err' = r.err
        /\ image_header_was_checked' = r.checked
        /\ header_accumulated' = r.ha
        /\ binary_file_length' = r.bfl
        /\ zero_read_count' = r.zrc
        /\ transfer_complete' = r.tc
        /\ same_version_detected' = r.svd
        /\ update_handle' = r.handle
        /\ verdict' = r.branch
        /\ outcomes' = outcomes \cup r.outs
        /\ EffectsFrom(r.events, r.wrote, r.src)
        /\ pc' = IF loop_continues(r.err, r.tc, r.svd) THEN "loop" ELSE "finish"
    /\ UNCHANGED << tmc_vars, ping_vars, net_vars, env_vars, boot_log, connection_error >>

\* what esp_ota_end(handle) may return: ESP_ERR_NOT_FOUND for a handle that
\* names no open session, else success or a finalize error
EndResults(handle) ==
    IF handle # 0 /\ session = "open"
    THEN { "ESP_OK", "ESP_ERR_OTA_VALIDATE_FAILED", "ESP_ERR_INVALID_STATE" }
    ELSE { "ESP_ERR_NOT_FOUND" }

\* a finalize result that is not looked at
end_result_ignored(end_err) == TRUE

\* if (err == ESP_OK) after esp_ota_end: the boot selector may be set
end_succeeded(end_err) == end_err = "ESP_OK"

\* a handle that is kept after esp_ota_end
handle_kept_after_end(handle) == handle

\* update_handle = 0, right after esp_ota_end(update_handle)
handle_after_end(handle) == 0

\* a boot-selector result that is not looked at
set_boot_result_ignored(boot_err) == TRUE

\* if (err == ESP_OK) after esp_ota_set_boot_partition: restart
set_boot_succeeded(boot_err) == boot_err = "ESP_OK"

\* lines 353-385 of update(): finish the OTA, clean up, return -err
\* complete is what esp_http_client_is_complete_data_received(client)
\* answers when it is asked again at line 356
update_finish_on(complete) ==
    /\ pc = "finish" /\ engine = "update"
    /\ LET commits == err = "ESP_OK" /\ complete IN
       \E end_err \in IF commits THEN EndResults(update_handle) ELSE { "ESP_OK" },
          boot_err \in IF commits THEN { "ESP_OK", "ESP_ERR_OTA_SELECT_INFO_INVALID" }
                                  ELSE { "ESP_OK" } :
         LET handle1 == IF commits THEN handle_after_end(update_handle) ELSE update_handle
             err1 == IF ~commits THEN err
                     ELSE IF end_succeeded(end_err) THEN boot_err ELSE end_err
             restarts == commits /\ end_succeeded(end_err) /\ set_boot_succeeded(boot_err)
             commit_events ==
                 (IF ~commits THEN <<>>
                  ELSE IF end_err = "ESP_OK" THEN <<"end_ok">> ELSE <<"end_failed">>)
                 \o (IF commits /\ end_succeeded(end_err)
                     THEN (IF boot_err = "ESP_OK" THEN <<"set_boot">>
                                                 ELSE <<"set_boot_failed">>)
                     ELSE <<>>)
                 \o (IF restarts THEN <<"restart">> ELSE <<>>)
             cleanup_events ==
                 IF restarts THEN <<>>
                 ELSE (IF client # "null" THEN <<"http_cleanup">> ELSE <<>>)
                      \o (IF handle1 # 0 THEN <<"abort">> ELSE <<>>)
         IN /\ err' = err1
            /\ update_handle' = handle1
            /\ Effects(commit_events \o cleanup_events, 0)
            /\ outcomes' = outcomes \cup
                   (IF restarts THEN { "updated-and-rebooting" }
                    ELSE IF err1 = "ESP_OK" THEN { "no-update-needed" }
                    ELSE IF commits THEN { "failed" } ELSE {})
            /\ pc' = IF restarts THEN "restarted" ELSE "returned"
    /\ UNCHANGED << tmc_vars, ping_vars, net_vars, env_vars, boot_log, received, errno, binary_file_length,
                    image_header_was_checked, header_accumulated,
                    zero_read_count, transfer_complete, same_version_detected,
                    connection_error, verdict, last_read >>

\* the transport answers the second query as it answered the one in the loop:
\* nothing was read in between
update_finish == update_finish_on(is_complete_data_received)

\* the same with a transport whose second answer is its own
update_finish_requery == \E complete \in BOOLEAN : update_finish_on(complete)

\* an app_main that carries on whatever the step before returned
step_always_allowed(e) == TRUE

\* if (err == ESP_OK) in app_main: the next step is taken
step_allowed(e) == e = "ESP_OK"

\* what an initialisation step of app_main may return
InitResults == { "ESP_OK", "error" }

\* the entry a step that returned e leaves in boot_log
step_entry(name, e) == name \o (IF e = "ESP_OK" THEN "_ok" ELSE "_failed")

\* app_main of the ota.c build up to the call of ota_update(): create the
\* event loop, ota_init(), network_init(), each only if all went well so
\* far; if one failed nothing else is called and the else branch
\* deinitialises, waits and calls esp_restart()
app_main_init ==
    /\ pc = "boot" /\ engine = "update"
    /\ \E r1 \in InitResults, r2 \in InitResults, r3 \in InitResults :
        LET e1 == r1
            e2 == IF step_allowed(e1) THEN r2 ELSE e1
            e3 == IF step_allowed(e2) THEN r3 ELSE e2
            steps == << step_entry("esp_event_loop_create_default", r1) >>
                     \o (IF step_allowed(e1) THEN << step_entry("ota_init", r2) >> ELSE <<>>)
                     \o (IF step_allowed(e2) THEN << step_entry("network_init", r3) >> ELSE <<>>)
        IN /\ boot_log' = steps \o (IF step_allowed(e3) THEN << "ota_update" >>
                                                        ELSE << "esp_restart" >>)
           /\ pc' = IF step_allowed(e3) THEN "start" ELSE "restarted"
           /\ Effects(IF step_allowed(e3) THEN <<>> ELSE << "app_restart" >>, 0)
    /\ UNCHANGED << tmc_vars, ping_vars, net_vars, env_vars, received, errno, err, update_handle,
                    binary_file_length, image_header_was_checked,
                    header_accumulated, zero_read_count, transfer_complete,
                    same_version_detected, connection_error, verdict,
                    outcomes, last_read >>

\* app_main of the ota.c build after ota_update() returned: on ESP_OK
\* tmc2209_init() and, if that went well, the motor sequence and the idle
\* loop; otherwise deinit, wait and esp_restart()
app_main ==
    /\ pc = "returned" /\ engine = "update"
    /\ \E tmc \in InitResults :
        LET e4 == IF step_allowed(err) THEN tmc ELSE err
            steps == << step_entry("ota_update", err) >>
                     \o (IF step_allowed(err) THEN << step_entry("tmc2209_init", tmc) >> ELSE <<>>)
        IN /\ boot_log' = boot_log \o steps
                           \o (IF step_allowed(e4) THEN << "motor_sequence" >>
                                                   ELSE << "esp_restart" >>)
           /\ pc' = IF step_allowed(e4) THEN "steady" ELSE "restarted"
           /\ Effects(IF step_allowed(e4) THEN <<>> ELSE << "app_restart" >>, 0)
    /\ UNCHANGED << tmc_vars, ping_vars, net_vars, env_vars, received, errno, err, update_handle,
                    binary_file_length, image_header_was_checked,
                    header_accumulated, zero_read_count, transfer_complete,
                    same_version_detected, connection_error, verdict,
                    outcomes, last_read >>

(***************************************************************************)
(* ota_task() of stepper.c                                                 *)
(***************************************************************************)
\* task_fatal_error(): vTaskDelete(NULL) deletes the calling task and does
\* not return, so nothing after it runs; the value is where the task ends
task_fatal_error == "task_deleted"

\* infinite_loop(): the task idles for good
infinite_loop == "idle"

\* if (update_handle) { esp_ota_abort(update_handle); }
abort_if_handle(handle) == IF handle # 0 THEN <<"abort">> ELSE <<>>

\* lines 267-297: open the HTTP connection, resolve the update partition
ota_task_start ==
    /\ pc = "start" /\ engine = "ota_task"
    /\ \E res \in { "ok", "init_failed" } \cup OpenErrors :
        /\ client' = CASE res = "ok" -> "open"
                       [] res = "init_failed" -> "null"
                       [] OTHER -> "cleaned"
        /\ err' = IF res \in OpenErrors THEN res ELSE err
        /\ log' = IF res \in OpenErrors THEN Logged(log, "client_cleanup") ELSE log
        /\ outcomes' = IF res = "ok" THEN outcomes ELSE outcomes \cup { "failed" }
        /\ pc' = IF res = "ok" THEN "loop" ELSE task_fatal_error
    /\ UNCHANGED << tmc_vars, ping_vars, net_vars, env_vars, boot_log, received, errno, boot_selector, session,
                    session_partition, stream_in_order, flash_written, begin_calls, end_calls, abort_calls,
                    set_boot_calls, gate_calls, update_handle, binary_file_length,
                    image_header_was_checked, header_accumulated,
                    zero_read_count, transfer_complete, same_version_detected,
                    connection_error, verdict, last_read >>

\* one iteration of the while loop, lines 300-422; fatal says the iteration
\* ended in task_fatal_error()
ota_task_iteration(in) ==
    LET n == in.rd.n
        same == [err |-> err, checked |-> image_header_was_checked,
                 ha |-> header_accumulated, bfl |-> binary_file_length,
                 zrc |-> zero_read_count, tc |-> transfer_complete,
                 svd |-> same_version_detected, ce |-> connection_error,
                 handle |-> update_handle, events |-> <<>>, wrote |-> 0,
                 src |-> 0,
                 branch |-> verdict, outs |-> {}, fatal |-> FALSE]
    IN
    IF n < 0 THEN
        [same EXCEPT !.events = <<"http_cleanup">>, !.outs = { "failed" },
                     !.fatal = TRUE]
    ELSE IF n > 0 /\ ~image_header_was_checked THEN
        IF ~fits_header_buffer(header_accumulated, n) THEN
            [same EXCEPT !.zrc = zero_read_count_reset(zero_read_count),
                         !.events = <<"http_cleanup">>,
                         !.outs = { "failed" }, !.fatal = TRUE]
        ELSE
        LET ha1 == accumulate(header_accumulated, n)
            g == parse_firmware_header(ha1, candidate, in.run_v, in.inv_v,
                                       in.begin_ok, in.write_ok)
            handle1 == IF g.handle # 0 THEN g.handle ELSE update_handle
        IN IF ~has_complete_header(ha1) THEN
               [same EXCEPT !.zrc = zero_read_count_reset(zero_read_count),
                            !.ha = ha1]
           ELSE IF g.ret = 1 THEN
               [same EXCEPT !.zrc = zero_read_count_reset(zero_read_count),
                            !.ha = ha1,
                            !.checked = header_was_checked(g.ret),
                            !.bfl = header_flush_length(ha1), !.handle = handle1,
                            !.events = g.events, !.wrote = g.wrote,
                            !.src = header_buffer_start(received + n, ha1),
                            !.branch = g.branch]
           ELSE IF g.ret = 0 THEN
               [same EXCEPT !.zrc = zero_read_count_reset(zero_read_count),
                            !.ha = ha1, !.svd = TRUE, !.handle = handle1,
                            !.events = g.events \o <<"http_cleanup">>
                                       \o abort_if_handle(handle1),
                            !.branch = g.branch, !.outs = { "no-update-needed" }]
           ELSE
               [same EXCEPT !.zrc = zero_read_count_reset(zero_read_count),
                            !.ha = ha1, !.handle = handle1,
                            !.events = g.events \o <<"http_cleanup">>
                                       \o abort_if_handle(handle1),
                            !.branch = g.branch,
                            !.outs = IF g.branch = "reject"
                                     THEN { "rejected-known-bad" } ELSE { "failed" },
                            !.fatal = TRUE]
    ELSE IF n > 0 THEN
        IF in.write_ok THEN
            [same EXCEPT !.zrc = zero_read_count_reset(zero_read_count),
                         !.err = "ESP_OK",
                         !.bfl = binary_file_length + n,
                         !.events = <<"write">>, !.wrote = n,
                         !.src = received]
        ELSE
            [same EXCEPT !.zrc = zero_read_count_reset(zero_read_count),
                         !.err = "ESP_ERR_FLASH_OP_FAIL",
                         !.events = <<"write_failed", "http_cleanup", "abort">>,
                         !.outs = { "failed" }, !.fatal = TRUE]
    ELSE
        LET count == zero_read_count_incremented(zero_read_count)
            class == zero_read_class(image_header_was_checked,
                                     is_complete_data_received, in.rd.errno, count)
            dead == class \in { "connection_closed", "too_many_zero_reads",
                                "eof_before_header" }
        IN [same EXCEPT
              !.zrc = count,
              !.ce = (dead /\ image_header_was_checked),
              !.tc = (class = "transfer_complete"),
              !.events = IF class = "transfer_complete" THEN <<"complete">>
                         ELSE IF dead /\ ~image_header_was_checked
                         THEN <<"http_cleanup">> ELSE <<>>,
              !.outs = IF dead THEN { "failed" } ELSE {},
              !.fatal = (dead /\ ~image_header_was_checked)]

\* a loop that goes on reading after the same-version clean-up
ota_task_loop_ignores_same_version(complete, conn_error, same_version) ==
    ~complete /\ ~conn_error

\* while (!transfer_complete && !connection_error && !same_version_detected)
ota_task_loop_continues(complete, conn_error, same_version) ==
    ~complete /\ ~conn_error /\ ~same_version

ota_task_loop ==
    /\ pc = "loop" /\ engine = "ota_task"
    /\ \E in \in IterationInputs :
        LET r == ota_task_iteration(in) IN
        /\ received' = received + (IF in.rd.n > 0 THEN in.rd.n ELSE 0)
        /\ errno' = in.rd.errno
        /\ last_read' = read_kind(in.rd.n)
        /\ err' = r.err
        /\ image_header_was_checked' = r.checked
        /\ header_accumulated' = r.ha
        /\ binary_file_length' = r.bfl
        /\ zero_read_count' = r.zrc
        /\ transfer_complete' = r.tc
        /\ same_version_detected' = r.svd
        /\ connection_error' = r.ce
        /\ update_handle' = r.handle
        /\ verdict' = r.branch
        /\ outcomes' = outcomes \cup r.outs
        /\ EffectsFrom(r.events, r.wrote, r.src)
        /\ pc' = IF r.fatal THEN task_fatal_error
                 ELSE IF ota_task_loop_continues(r.tc, r.ce, r.svd) THEN "loop"
                 ELSE "finish"
    /\ UNCHANGED << tmc_vars, ping_vars, net_vars, env_vars, boot_log >>

\* lines 424-474: the exits of the loop
ota_task_finish ==
    /\ pc = "finish" /\ engine = "ota_task"
    /\ LET gives_up == connection_error \/ ~is_complete_data_received
           ends == ~same_version_detected /\ ~gives_up /\ update_handle # 0
           sets == ~same_version_detected /\ ~gives_up
       IN
       \E end_err \in IF ends THEN EndResults(update_handle) ELSE { "ESP_OK" },
          boot_err \in IF sets THEN { "ESP_OK", "ESP_ERR_OTA_SELECT_INFO_INVALID" }
                               ELSE { "ESP_OK" } :
         LET events ==
                 IF same_version_detected THEN <<>>
                 ELSE IF gives_up
                 THEN <<"http_cleanup">> \o abort_if_handle(update_handle)
                 ELSE (IF ~ends THEN <<>>
                       ELSE IF end_err = "ESP_OK" THEN <<"end_ok">> ELSE <<"end_failed">>)
                      \o (IF ~end_succeeded(end_err) THEN <<"http_cleanup">>
                          ELSE (IF boot_err = "ESP_OK" THEN <<"set_boot">>
                                                      ELSE <<"set_boot_failed">>)
                               \o (IF set_boot_succeeded(boot_err) THEN <<"restart">>
                                                                   ELSE <<"http_cleanup">>))
             restarts == sets /\ end_succeeded(end_err) /\ set_boot_succeeded(boot_err)
         IN /\ err' = IF ends /\ ~end_succeeded(end_err) THEN end_err
                      ELSE IF sets /\ end_succeeded(end_err) THEN boot_err ELSE err
            /\ Effects(events, 0)
            /\ outcomes' = outcomes \cup
                   (IF same_version_detected THEN {}
                    ELSE IF restarts THEN { "updated-and-rebooting" }
                    ELSE { "failed" })
            /\ pc' = IF same_version_detected THEN infinite_loop
                     ELSE IF restarts THEN "restarted" ELSE task_fatal_error
    /\ UNCHANGED << tmc_vars, ping_vars, net_vars, env_vars, boot_log, received, errno, update_handle,
                    binary_file_length, image_header_was_checked,
                    header_accumulated, zero_read_count, transfer_complete,
                    same_version_detected, connection_error, verdict, last_read >>

Next ==
    \/ app_main_init
    \/ update_start
    \/ update_loop
    \/ update_finish
    \/ app_main
    \/ ota_task_start
    \/ ota_task_loop
    \/ ota_task_finish

Spec == Init /\ [][Next]_vars

\* the engine under a scheduler that lets it run: every call it makes
\* returns, esp_http_client_read included, so a step that can be taken is
\* taken.  The descriptors are read and the images are the short ones: the
\* versions and the length of the body make no difference to whether the
\* loop is left.
LiveInit ==
    /\ engine \in { "update", "ota_task" }
    /\ total \in { TinyImage, has_complete_header_min_size, MidImage }
    /\ candidate \in CandidateFields
    /\ running_version \in { <<1, 0, 0>>, <<2, 0, 0>> }
    /\ last_invalid \in { NoPartition, <<1, 0, 0>> }
    /\ running_desc_ok = TRUE
    /\ invalid_desc_ok = (last_invalid # NoPartition)
    /\ EngineAtBoot
    /\ DriverAtBoot
    /\ PingAtBoot
    /\ NetAtBoot

LiveSpec == LiveInit /\ [][Next]_vars /\ WF_vars(Next)

\* update() with a transport that may answer the query made after the loop
\* differently from the query that ended the loop
RequeryInit == LiveInit /\ engine = "update"

RequeryNext ==
    \/ app_main_init
    \/ update_start
    \/ update_loop
    \/ update_finish_requery
    \/ app_main

RequerySpec == RequeryInit /\ [][RequeryNext]_vars

(***************************************************************************)
(* The calls of the driver's interface, one action each.                   *)
(***************************************************************************)
\* what the UART set-up calls of tmc2209_init() may return
UartSetupResults == { "ESP_OK", "ESP_FAIL" }

\* tmc2209_init(uart, ...): install the UART driver, configure it, set its
\* pins; cleanup() if that failed; returns -err
tmc2209_init ==
    \E install \in UartSetupResults, config \in UartSetupResults :
        LET e == IF g_uart >= 0 THEN "ESP_OK"
                 ELSE IF install # "ESP_OK" THEN install ELSE config
        IN /\ g_uart' = IF g_uart >= 0 THEN g_uart ELSE IF e = "ESP_OK" THEN 1 ELSE -1
           /\ tmc_ret' = 0 - esp_err_value(e)
           /\ tmc_call' = [fn |-> "tmc2209_init", failed |-> e # "ESP_OK",
                           before |-> chopconf, arg |-> 0, after_set |-> -1]
           /\ UNCHANGED << chopconf, cur_vars, ota_vars,
                     ping_vars, net_vars >>

\* tmc2209_deinit(): cleanup()
tmc2209_deinit ==
    /\ g_uart' = -1
    /\ tmc_ret' = 0
    /\ tmc_call' = [fn |-> "tmc2209_deinit", failed |-> FALSE, before |-> chopconf,
                    arg |-> 0, after_set |-> -1]
    /\ UNCHANGED << chopconf, cur_vars, ota_vars,
                     ping_vars, net_vars >>

\* tmc2209_start(address, -1)
tmc2209_start ==
    \E address \in TmcAddresses, w \in UartWriteResults :
        /\ tmc_ret' = start(address, w)
        /\ tmc_call' = [fn |-> "tmc2209_start",
                        failed |-> (g_uart < 0 \/ address >= 4 \/ w # "all"),
                        before |-> chopconf, arg |-> 0, after_set |-> -1]
        /\ UNCHANGED << g_uart, chopconf, cur_vars, ota_vars,
                     ping_vars, net_vars >>

\* tmc2209_set_microstep_resolution(address, resolution)
tmc2209_set_microstep_resolution ==
    \E address \in TmcAddresses, resolution \in Resolutions,
       w1 \in UartWriteResults, r \in UartReadResults, w2 \in UartWriteResults :
        LET res == set_microstep_resolution(address, resolution, w1, r, w2, chopconf) IN
        /\ tmc_ret' = res.ret
        /\ chopconf' = res.reg
        /\ tmc_call' = [fn |-> "tmc2209_set_microstep_resolution",
                        failed |-> (g_uart < 0 \/ address >= 4 \/ resolution < 1
                                    \/ ~link_ok(w1, r) \/ w2 # "all"),
                        before |-> chopconf, arg |-> resolution, after_set |-> -1]
        /\ UNCHANGED << g_uart, cur_vars, ota_vars,
                     ping_vars, net_vars >>

\* tmc2209_get_microstep_resolution(address)
tmc2209_get_microstep_resolution ==
    \E address \in TmcAddresses, w \in UartWriteResults, r \in UartReadResults :
        /\ tmc_ret' = get_microstep_resolution(address, w, r, chopconf)
        /\ tmc_call' = [fn |-> "tmc2209_get_microstep_resolution",
                        failed |-> (g_uart < 0 \/ address >= 4 \/ ~link_ok(w, r)
                                    \/ MRES(chopconf) >= microstep_table_length),
                        before |-> chopconf, arg |-> 0,
                        after_set |-> IF tmc_call.fn = "tmc2209_set_microstep_resolution"
                                         /\ ~tmc_call.failed
                                      THEN tmc_ret ELSE -1]
        /\ UNCHANGED << g_uart, chopconf, cur_vars, ota_vars,
                     ping_vars, net_vars >>

TmcNext ==
    \/ tmc2209_start
    \/ tmc2209_set_microstep_resolution
    \/ tmc2209_get_microstep_resolution
    \/ tmc2209_init
    \/ tmc2209_deinit

TmcSpec == TmcInit /\ [][TmcNext]_vars


(***************************************************************************)
(* The ping session of ping.c: ping_start() and the callbacks the ping     *)
(* task makes, one per echo request and one at the end of the session.     *)
(***************************************************************************)
\* what ping_start() may meet: getaddrinfo, esp_ping_new_session or
\* esp_ping_start failing, or the session starting
PingStartResults == { "ok", "unknown_host", "session_failed", "start_failed" }

\* a / b on uint32_t: with b == 0 the behaviour is undefined, the build
\* either traps or yields some value
divide(a, b) ==
    IF b = 0
    THEN { [trap |-> TRUE, value |-> 0] }
         \cup { [trap |-> FALSE, value |-> v] : v \in { 0, a } }
    ELSE { [trap |-> FALSE, value |-> a \div b] }

\* the divisor of the average time logged by cmd_ping_on_ping_end
average_divisor(reply_count) == reply_count

ping_start ==
    /\ ping_pc = "none"
    /\ \E res \in PingStartResults :
           ping_pc' = IF res = "ok" THEN "running" ELSE "failed"
    /\ UNCHANGED << transmitted, replies, total_time_ms, divisor,
                    ota_vars, tmc_vars, net_vars >>

\* a reply arrived: the session counts the request, the reply and its time
cmd_ping_on_ping_success ==
    /\ ping_pc = "running" /\ transmitted < PingCount
    /\ \E elapsed_time \in ElapsedTimes :
           total_time_ms' = total_time_ms + elapsed_time
    /\ transmitted' = transmitted + 1
    /\ replies' = replies + 1
    /\ UNCHANGED << ping_pc, divisor, ota_vars, tmc_vars, net_vars >>

\* no reply arrived in time: the session counts the request only
cmd_ping_on_ping_timeout ==
    /\ ping_pc = "running" /\ transmitted < PingCount
    /\ transmitted' = transmitted + 1
    /\ UNCHANGED << ping_pc, replies, total_time_ms, divisor,
                    ota_vars, tmc_vars, net_vars >>

\* the session has sent all its requests: log the totals, the loss and the
\* average time, then esp_ping_delete_session
cmd_ping_on_ping_end ==
    /\ ping_pc = "running" /\ transmitted = PingCount
    /\ divisor' = average_divisor(replies)
    /\ \E average \in divide(total_time_ms, average_divisor(replies)) :
           ping_pc' = IF average.trap THEN "trapped" ELSE "ended"
    /\ UNCHANGED << transmitted, replies, total_time_ms,
                    ota_vars, tmc_vars, net_vars >>

PingNext ==
    \/ ping_start
    \/ cmd_ping_on_ping_success
    \/ cmd_ping_on_ping_timeout
    \/ cmd_ping_on_ping_end

\* the ping session on its own, with everything else left as it is at boot
PingInit == TmcInit /\ chopconf = uint32(2^12, 83)

PingSpec == PingInit /\ [][PingNext]_vars

(***************************************************************************)
(* tmc2209_set_current and the current it programs (tmc2209.c).            *)
(***************************************************************************)

\* #define IRUN_OR_IHOLD_MAX 31
IRUN_OR_IHOLD_MAX == 31

\* the sense resistors asked for, in milliohms; all small enough for the
\* 32-bit denominator of rms_current_milliamps not to wrap
SenseResistors == { 50, 110, 1000 }

\* the run currents asked for, in mA: none, the smallest, one above what
\* IRUN = 0 delivers with 110 milliohms, a mid-range value, one above each of
\* the two maxima with 110 milliohms, and beyond them
RunCurrents == { 0, 1, 31, 500, 980, 1741, 3000 }

\* hold currents in percent, in range and out of range
HoldPercents == { 0, 50, 101 }

\* v_full_scale_millivolts(v_sense)
v_full_scale_millivolts(v_sense) == IF v_sense > 0 THEN 180 ELSE 320

\* rms_current_milliamps(i_run, v_sense_bit, r_sense_mohm):
\* (i_run + 1) * vfs * 1000000 / (32 * 1414 * (r_sense_mohm + 20)), with both
\* terms divided by 64 here, which leaves the quotient as it is.  i_run is -1
\* for the uint32_t 0xffffffff, whose i_run + 1 wraps to 0.
rms_current_milliamps(i_run, v_sense_bit, r_sense_mohm) ==
    ((i_run + 1) * v_full_scale_millivolts(v_sense_bit) * 15625)
        \div (707 * (r_sense_mohm + 20))

\* (run_current_ma * IRUN_OR_IHOLD_MAX / max_current) - 1 in uint32_t, given
\* the quotient: 0xffffffff, kept as -1, when the quotient is 0
i_run_of(quotient) == quotient - 1

\* i_run * hold_current_percent / 100 in uint32_t; for i_run = 0xffffffff the
\* product wraps to 2^32 - hold_current_percent, and 2^32 is
\* 42949672 * 100 + 96
i_hold_of(i_run, hold_current_percent) ==
    IF i_run >= 0 THEN (i_run * hold_current_percent) \div 100
    ELSE IF hold_current_percent = 0 THEN 0
    ELSE 42949672 + ((96 - hold_current_percent) \div 100)

\* x & 0x1f for a uint32_t x, -1 standing for 0xffffffff
low5(x) == x % 32

\* (data >> 17) & 1: the VSENSE bit of CHOPCONF
VSENSE(data) == (data.hi \div 2) % 2

\* (data & 0xfffdffff) | (v_sense << 17)
with_VSENSE(data, v_sense) ==
    [data EXCEPT !.hi = data.hi - VSENSE(data) * 2 + v_sense * 2]

\* bits 0 to 4 and 8 to 12 of IHOLD_IRUN
IHOLD(data) == data.lo % 32

IRUN(data) == (data.lo \div 2^8) % 32

\* (data & 0xffffe0e0) | (i_hold & 0x1f) | ((i_run & 0x1f) << 8)
with_IHOLD_IRUN(data, i_hold, i_run) ==
    [data EXCEPT !.lo = data.lo - IHOLD(data) - IRUN(data) * 2^8
                        + low5(i_hold) + low5(i_run) * 2^8]

\* err & 0xfffffffe
without_bit0(data) == [data EXCEPT !.lo = data.lo - (data.lo % 2)]

\* the body of tmc2209_set_current(): link[k] is what the UART does in the
\* k-th register access, regs what the device holds; ret is what the call
\* returns, the rest what the device holds afterwards
set_current(address, r_sense_mohm, run_current_ma, hold_current_percent, link, regs) ==
    LET same == [ret |-> 0 - esp_err_value("ESP_ERR_INVALID_ARG"),
                 chopconf |-> regs.chopconf, ihold_irun |-> regs.ihold_irun,
                 gconf |-> regs.gconf, quotient |-> 0]
    IN
    IF hold_current_percent > 100 THEN same
    ELSE
    LET max1 == rms_current_milliamps(IRUN_OR_IHOLD_MAX, 1, r_sense_mohm)
        v_sense == IF max1 < run_current_ma THEN 0 ELSE 1
        max_current == rms_current_milliamps(IRUN_OR_IHOLD_MAX, v_sense, r_sense_mohm)
        quotient == (run_current_ma * IRUN_OR_IHOLD_MAX) \div max_current
        i_run == i_run_of(quotient)
        i_hold == i_hold_of(i_run, hold_current_percent)
        wrote(reg, k) == write(address, reg, 4, link[k].w) = 4
        e1 == read_reg(address, 108, link[1].w, link[1].r, regs.chopconf)
        e2 == IF e1 >= 0 THEN write_reg(address, 108, link[2].w) ELSE e1
        chop1 == IF e1 >= 0 /\ wrote(108, 2)
                 THEN with_VSENSE(to_uint32(e1), v_sense) ELSE regs.chopconf
        e3 == IF e2 >= 0
              THEN read_reg(address, 16, link[3].w, link[3].r, regs.ihold_irun)
              ELSE e2
        e4 == IF e2 >= 0 /\ e3 >= 0 THEN write_reg(address, 16, link[4].w) ELSE e3
        ihir1 == IF e2 >= 0 /\ e3 >= 0 /\ wrote(16, 4)
                 THEN with_IHOLD_IRUN(to_uint32(e3), i_hold, i_run)
                 ELSE regs.ihold_irun
        e5 == IF e4 >= 0
              THEN read_reg(address, 0, link[5].w, link[5].r, regs.gconf)
              ELSE e4
        e6 == IF e4 >= 0 /\ e5 >= 0 THEN write_reg(address, 0, link[6].w) ELSE e5
        gconf1 == IF e4 >= 0 /\ e5 >= 0 /\ wrote(0, 6)
                  THEN without_bit0(to_uint32(e5)) ELSE regs.gconf
    IN [ret |-> IF e6 >= 0
                THEN rms_current_milliamps(i_run, v_sense, r_sense_mohm)
                ELSE e6,
        chopconf |-> chop1, ihold_irun |-> ihir1, gconf |-> gconf1,
        quotient |-> quotient]

\* what the UART does in the six register accesses of one call: all goes
\* well (failing = 0), or the access failing goes wrong as how says: a read
\* (accesses 1, 3 and 5) gets a reply that is not the datagram, a write
\* (accesses 2, 4 and 6) is cut short or fails
LinkOf(failing, how) ==
    [k \in 1..6 |-> IF k # failing THEN [w |-> "all", r |-> "datagram"]
                    ELSE IF k \in { 1, 3, 5 } THEN [w |-> "all", r |-> how]
                    ELSE [w |-> how, r |-> "datagram"]]

\* the ways one call can go on the UART
LinkCases ==
    { LinkOf(0, "all") }
    \cup { LinkOf(k, how) : k \in { 1, 3, 5 }, how \in UartReadResults \ { "datagram" } }
    \cup { LinkOf(k, how) : k \in { 2, 4, 6 }, how \in { "short", "error" } }

\* tmc2209_set_current(address, r_sense_mohm, run_current_ma,
\* hold_current_percent); each run looks at one call
tmc2209_set_current ==
    /\ ~cur_call.done
    /\ \E address \in TmcAddresses, r_sense_mohm \in SenseResistors,
       run_current_ma \in RunCurrents, hold_current_percent \in HoldPercents,
       link \in LinkCases :
        LET res == set_current(address, r_sense_mohm, run_current_ma,
                               hold_current_percent, link,
                               [chopconf |-> chopconf, ihold_irun |-> ihold_irun,
                                gconf |-> gconf])
            ok == /\ hold_current_percent <= 100 /\ g_uart >= 0 /\ address < 4
                  /\ \A k \in 1..6 : link_ok(link[k].w, link[k].r)
                  /\ to_esp_err_t(chopconf) >= 0
        IN
        /\ tmc_ret' = res.ret
        /\ chopconf' = res.chopconf
        /\ ihold_irun' = res.ihold_irun
        /\ gconf' = res.gconf
        /\ tmc_call' = [fn |-> "tmc2209_set_current", failed |-> ~ok,
                        before |-> chopconf, arg |-> run_current_ma,
                        after_set |-> -1]
        /\ cur_call' = [done |-> TRUE, failed |-> ~ok,
                        r_sense_mohm |-> r_sense_mohm,
                        run_current_ma |-> run_current_ma,
                        hold_current_percent |-> hold_current_percent,
                        quotient |-> res.quotient]
        /\ UNCHANGED << g_uart, ota_vars, ping_vars, net_vars >>

CurrentNext ==
    \/ tmc2209_init
    \/ tmc2209_deinit
    \/ tmc2209_set_current

\* the driver's current setting on its own
CurrentSpec == TmcInit /\ [][CurrentNext]_vars

(***************************************************************************)
(* Networking: network_init, its event handlers and network_deinit         *)
(* (network.c).                                                            *)
(***************************************************************************)

\* the arguments network_init may be given: an SSID that is NULL, fits
\* wifi_config.sta.ssid or is too long, a password that is NULL, empty, fits
\* or is too long, and an auth_mode that is WIFI_AUTH_OPEN or not
NetArgs ==
    [ssid : { "NULL", "fits", "long" },
     password : { "NULL", "empty", "fits", "long" },
     auth_open : BOOLEAN]

\* the condition of lines 118-121: no password, or an auth_mode that is not
\* open; an SSID and a password that fit
args_accepted(a) ==
    /\ (a.password \in { "NULL", "empty" } \/ ~a.auth_open)
    /\ a.ssid = "fits"
    /\ a.password # "long"

\* the calls of network_init that can fail before the wait, in order
NetSteps ==
    << "esp_netif_init", "xSemaphoreCreateBinary",
       "esp_netif_create_default_wifi_sta", "esp_wifi_init",
       "register_wifi_event_handler", "register_ip_event_handler",
       "esp_wifi_set_mode", "esp_wifi_set_config", "esp_wifi_start" >>

\* what a failing call leaves in err
StepErrors(step) ==
    IF step \in { "xSemaphoreCreateBinary", "esp_netif_create_default_wifi_sta" }
    THEN { "ESP_ERR_NO_MEM" }
    ELSE { "ESP_ERR_NO_MEM", "ESP_FAIL", "ESP_ERR_INVALID_STATE" }

\* return -err
network_init_return(e) == 0 - esp_err_value(e)

\* a wait that reports success when it has timed out
take_always_succeeds(semaphore) == TRUE

\* xSemaphoreTake(g_wifi_semaphore, ...) == pdTRUE: the binary semaphore was
\* given
take_succeeds(semaphore) == semaphore = "given"

\* network_init up to esp_wifi_start, lines 112-203; failed is 0 when every
\* call succeeds, else the index in NetSteps of the call that fails
network_init ==
    /\ net_pc = "idle"
    /\ IF ~args_accepted(net_args)
       THEN /\ net_ret' = network_init_return(net_err)
            /\ net_pc' = "returned"
            /\ UNCHANGED << net_err, g_wifi_semaphore, g_sta_netif, wifi >>
       ELSE \E failed \in 0..Len(NetSteps) :
            \E e \in IF failed = 0 THEN { "ESP_OK" } ELSE StepErrors(NetSteps[failed]) :
              /\ net_err' = e
              /\ g_wifi_semaphore' = IF failed \in { 1, 2 } THEN g_wifi_semaphore
                                     ELSE "empty"
              \* created at line 139, destroyed at lines 229-232 on an error
              /\ g_sta_netif' = IF failed = 0 THEN "sta" ELSE "NULL"
              /\ wifi' = IF failed = 0 THEN "started" ELSE wifi
              /\ net_pc' = IF failed = 0 THEN "waiting" ELSE "returned"
              /\ net_ret' = IF failed = 0 THEN net_ret ELSE network_init_return(e)
    /\ UNCHANGED << gave_in_time, net_args, net_clock, ota_vars, tmc_vars, ping_vars >>

\* WIFI_EVENT_STA_START: wifi_event_handler calls esp_wifi_connect()
wifi_event_sta_start ==
    /\ wifi = "started"
    /\ wifi' = "connecting"
    /\ UNCHANGED << net_pc, net_ret, g_wifi_semaphore, g_sta_netif, gave_in_time,
                    net_err, net_args, net_clock, ota_vars, tmc_vars, ping_vars >>

\* WIFI_EVENT_STA_CONNECTED: logged only
wifi_event_sta_connected ==
    /\ wifi = "connecting"
    /\ wifi' = "associated"
    /\ UNCHANGED << net_pc, net_ret, g_wifi_semaphore, g_sta_netif, gave_in_time,
                    net_err, net_args, net_clock, ota_vars, tmc_vars, ping_vars >>

\* WIFI_EVENT_STA_DISCONNECTED: wifi_event_handler calls esp_wifi_connect()
\* again; the semaphore keeps what it holds
wifi_event_sta_disconnected ==
    /\ wifi \in { "connecting", "associated", "got_ip" }
    /\ wifi' = "connecting"
    /\ UNCHANGED << net_pc, net_ret, g_wifi_semaphore, g_sta_netif, gave_in_time,
                    net_err, net_args, net_clock, ota_vars, tmc_vars, ping_vars >>

\* IP_EVENT_STA_GOT_IP: ip_event_handler gives the semaphore it was
\* registered with; a binary semaphore that is given stays given
ip_event_handler ==
    /\ wifi = "associated"
    /\ wifi' = "got_ip"
    /\ g_wifi_semaphore' = IF g_wifi_semaphore # "NULL" THEN "given"
                           ELSE g_wifi_semaphore
    /\ gave_in_time' = (gave_in_time \/ net_pc = "waiting")
    /\ UNCHANGED << net_pc, net_ret, g_sta_netif,
                    net_err, net_args, net_clock, ota_vars, tmc_vars, ping_vars >>

\* time passes in xSemaphoreTake
xSemaphoreTake_tick ==
    /\ net_pc = "waiting" /\ net_clock < WaitTicks
    /\ net_clock' = net_clock + 1
    /\ UNCHANGED << net_pc, net_ret, g_wifi_semaphore, g_sta_netif, wifi,
                    gave_in_time, net_err, net_args, ota_vars, tmc_vars, ping_vars >>

\* lines 206-237: xSemaphoreTake returns, with the semaphore or because the
\* 60 s are over; esp_wifi_set_ps, whose failure is not fatal; the clean-up
\* on an error; return -err
network_init_wait_ends ==
    /\ net_pc = "waiting"
    /\ IF take_succeeds(g_wifi_semaphore) THEN TRUE ELSE net_clock = WaitTicks
    /\ LET taken == take_succeeds(g_wifi_semaphore)
           e == IF taken THEN net_err ELSE "ESP_ERR_TIMEOUT"
       IN /\ g_wifi_semaphore' = IF g_wifi_semaphore = "given" THEN "empty"
                                 ELSE g_wifi_semaphore
          /\ net_err' = e
          /\ g_sta_netif' = IF e # "ESP_OK" THEN "NULL" ELSE g_sta_netif
          /\ net_ret' = network_init_return(e)
          /\ net_pc' = "returned"
    /\ UNCHANGED << wifi, gave_in_time, net_args, net_clock,
                    ota_vars, tmc_vars, ping_vars >>

\* network_deinit(), called by app_main when the initialisation failed
network_deinit ==
    /\ net_pc = "returned" /\ net_ret # 0
    /\ g_sta_netif' = "NULL"
    /\ net_pc' = "deinit"
    /\ UNCHANGED << net_ret, g_wifi_semaphore, wifi, gave_in_time,
                    net_err, net_args, net_clock, ota_vars, tmc_vars, ping_vars >>

NetNext ==
    \/ network_init
    \/ wifi_event_sta_start
    \/ wifi_event_sta_connected
    \/ wifi_event_sta_disconnected
    \/ ip_event_handler
    \/ xSemaphoreTake_tick
    \/ network_init_wait_ends
    \/ network_deinit

NetInit ==
    /\ engine = "update"
    /\ total = TinyImage
    /\ candidate = <<1, 0, 0>>
    /\ running_version = <<1, 0, 0>>
    /\ last_invalid = NoPartition
    /\ running_desc_ok = TRUE
    /\ invalid_desc_ok = FALSE
    /\ EngineAtBoot
    /\ DriverAtBoot
    /\ PingAtBoot
    /\ NetIdle
    /\ net_args \in NetArgs

\* network_init and the Wi-Fi and IP events on their own
NetSpec == NetInit /\ [][NetNext]_vars

\* the engine has taken its last step
Terminal == pc \in { "restarted", "steady", "idle", "task_deleted" }

\* an outcome has been reached: update() has returned or restarted the
\* device, ota_task() has ended
OutcomeReached == pc \in { "returned", "restarted", "steady", "idle", "task_deleted" }

\* update() or ota_task() has been entered
EngineInvoked == pc # "boot" /\ (engine = "update" => Count(boot_log, "ota_update") > 0)

\* the gate compared the candidate with descriptors it did read
DescriptorsRead ==
    running_desc_ok /\ (last_invalid = NoPartition \/ invalid_desc_ok)

(***************************************************************************)
(* Claims                                                                  *)
(***************************************************************************)

\* C1 (anti-bootloop): once the gate has run on a candidate whose version
\* field equals that of an existing last-invalid partition, the verdict is
\* reject, esp_ota_begin was never called, the boot selector is unchanged and
\* the outcome is rejected-known-bad, whatever the running version is.
C1_AntiBootloop ==
    (verdict # "none" /\ last_invalid # NoPartition /\ candidate = last_invalid)
    => /\ verdict = "reject"
       /\ begin_calls = 0
       /\ boot_selector = "running"
       /\ (OutcomeReached => outcomes = { "rejected-known-bad" })

\* C2 (idempotent skip): once the gate has run on a candidate whose version
\* field equals the running partition's and matches no last-invalid version
\* (the descriptors having been read), no session is opened, nothing is
\* written, finalized or made the boot target, and the outcome is
\* no-update-needed, whatever the transport says about completeness.
C2_IdempotentSkip ==
    (/\ verdict # "none"
     /\ DescriptorsRead
     /\ candidate = running_version
     /\ ~(last_invalid # NoPartition /\ candidate = last_invalid))
    => /\ begin_calls = 0
       /\ flash_written = 0
       /\ end_calls = 0
       /\ set_boot_calls = 0
       /\ (OutcomeReached => outcomes = { "no-update-needed" })

\* C3 (single commit): the boot selector is set at most once, and names the
\* update partition only after transfer-complete was observed and the open
\* session was finalized successfully, with the whole image written and the
\* session never aborted: the outcome is then updated-and-rebooting.
C3_SingleCommit ==
    /\ set_boot_calls <= 1
    /\ (boot_selector = "update") = (set_boot_calls = 1)
    /\ boot_selector = "update"
       => /\ transfer_complete
          /\ is_complete_data_received
          /\ session = "ended"
          /\ abort_calls = 0
          /\ flash_written = total
          /\ outcomes = { "updated-and-rebooting" }

\* a run that committed: finalized, boot selector set, device restarted
C3_Witness == boot_selector = "update" /\ pc = "restarted" /\ session = "ended"

\* C4: in every outcome other than updated-and-rebooting, a session that
\* was opened has been aborted and esp_ota_end was never applied to it.
C4_AbortedNotFinalized ==
    (OutcomeReached /\ "updated-and-rebooting" \notin outcomes /\ begin_calls > 0)
    => (abort_calls >= 1 /\ end_calls = 0)

\* C5 (byte accounting): when the transfer is complete and the session is
\* committed, binary_file_length and the bytes the write primitive accepted
\* both equal the sum of the positive reads: header and body bytes are each
\* counted once.
C5_ByteAccounting ==
    (transfer_complete \/ session \in { "ended", "end_failed" })
    => (binary_file_length = received /\ flash_written = received)

\* a committed image whose bytes came through the header flush and through
\* body writes
C5_Witness ==
    /\ session = "ended"
    /\ received > header_accumulated
    /\ binary_file_length = total

\* C7 (zero-read tolerance): after a zero-length read with the transport not
\* complete, the engine has failed if this was the max_zero_reads-th zero
\* read in a row, and is still in the loop, not failed, if it was an earlier
\* one and the connection is not reported closed; a positive read resets the
\* count, which never passes the ceiling.
C7_ZeroReadTolerance ==
    /\ zero_read_count <= max_zero_reads
    /\ (last_read = "positive" => zero_read_count = 0)
    /\ (last_read = "zero" /\ ~is_complete_data_received)
       => /\ zero_read_count >= max_zero_reads
             => ("failed" \in outcomes /\ pc # "loop")
          /\ (zero_read_count < max_zero_reads /\ ~connection_closed(errno))
             => (pc = "loop" /\ outcomes = {})

\* the ceiling-th zero read in a row, after the header was resolved
C7_Witness ==
    /\ last_read = "zero"
    /\ zero_read_count = max_zero_reads
    /\ image_header_was_checked
    /\ ~is_complete_data_received
    /\ "failed" \in outcomes

C9_ExactlyOneOutcome ==
    (Terminal /\ EngineInvoked) => Cardinality(outcomes) = 1

\* C10: a run that entered the fatal path (failed or rejected) and has taken
\* its last step has restarted the device.
C10_FatalRestarts ==
    (Terminal /\ outcomes \cap { "failed", "rejected-known-bad" } # {})
    => pc = "restarted"

\* C11 (version gate decision): once the gate has run, its verdict is reject
\* if a last-invalid partition exists and its version field equals the
\* candidate's over the full width, otherwise skip if the running partition's
\* field equals the candidate's, otherwise proceed; fields that differ only
\* after the terminator are different.
C11_GateDecision ==
    verdict # "none"
    => verdict = IF last_invalid # NoPartition /\ last_invalid = candidate
                 THEN "reject"
                 ELSE IF running_version = candidate THEN "skip" ELSE "proceed"

\* the steps of a boot in which everything up to ota_update() went well
GoodPrologue ==
    << "esp_event_loop_create_default_ok", "ota_init_ok", "network_init_ok",
       "ota_update" >>

\* C12: in app_main the engine is entered at most once per boot and only
\* after the event loop, ota_init and network_init returned ESP_OK; the
\* steady-state workload (tmc2209_init, the motor sequence) starts only after
\* ota_update returned ESP_OK; when an earlier step failed ota_update is not
\* called and the device restarts.
C12_InvokedOnceAfterInit ==
    engine = "update"
    => /\ Count(boot_log, "ota_update") <= 1
       /\ pc \in { "start", "loop", "finish", "returned" } => boot_log = GoodPrologue
       /\ Count(boot_log, "ota_update") = 1
          => SubSeq(boot_log, 1, Len(GoodPrologue)) = GoodPrologue
       /\ \A i \in 1..Len(boot_log) :
            /\ boot_log[i] \in { "tmc2209_init_ok", "tmc2209_init_failed" }
               => (i > 1 /\ boot_log[i - 1] = "ota_update_ok")
            /\ boot_log[i] = "motor_sequence"
               => (i > 2 /\ boot_log[i - 1] = "tmc2209_init_ok"
                         /\ boot_log[i - 2] = "ota_update_ok")
            /\ boot_log[i] \in { "esp_event_loop_create_default_failed",
                                 "ota_init_failed", "network_init_failed" }
               => /\ Count(boot_log, "ota_update") = 0
                  /\ boot_log[Len(boot_log)] = "esp_restart"
                  /\ pc = "restarted"
                  /\ outcomes = {}

\* a boot that went through ota_update() into the steady-state workload
C12_Witness ==
    /\ pc = "steady"
    /\ boot_log = GoodPrologue \o << "ota_update_ok", "tmc2209_init_ok", "motor_sequence" >>
    /\ outcomes = { "no-update-needed" }

\* C13: what ota_update returns is 0 when the run did not fail and strictly
\* negative when it did; it is never positive.
C13_ReturnSign ==
    (engine = "update" /\ pc = "returned")
    => /\ update_return(err) <= 0
       /\ (outcomes \cap { "failed", "rejected-known-bad" } # {}) = (update_return(err) < 0)
       /\ (outcomes = { "no-update-needed" }) = (update_return(err) = 0)

\* the functions tmc2209.h documents as returning a negative value on failure
NegativeOnFailure ==
    { "tmc2209_init", "tmc2209_start", "tmc2209_set_microstep_resolution",
      "tmc2209_get_microstep_resolution" }

\* C14: a tmc2209_ function documented to return a negative value on failure
\* has returned a value below 0 whenever the call failed: the driver not
\* initialised, an address or a resolution out of range, the UART not
\* carrying the request or the reply, a reserved MRES value read back.
C14_NegativeOnFailure ==
    (tmc_call.fn \in NegativeOnFailure /\ tmc_call.failed) => tmc_ret < 0

\* the largest entry of g_microstep_table that is not above r
largest_entry(r) ==
    CHOOSE e \in { g_microstep_table[i] : i \in 1..Len(g_microstep_table) } :
        /\ e <= r
        /\ \A i \in 1..Len(g_microstep_table) :
               g_microstep_table[i] <= r => g_microstep_table[i] <= e

\* C15: after tmc2209_set_microstep_resolution(address, r) with r >= 1 and
\* the register read and write carried by the UART, MRES holds the index of
\* the largest table entry that is not above r, every other bit of CHOPCONF
\* is as it was, and that entry is returned; a
\* tmc2209_get_microstep_resolution that follows returns the same value.
C15_MicrostepResolution ==
    /\ (tmc_call.fn = "tmc2209_set_microstep_resolution" /\ ~tmc_call.failed)
       => /\ g_microstep_table[MRES(chopconf) + 1] = largest_entry(tmc_call.arg)
          /\ with_MRES(chopconf, 0) = with_MRES(tmc_call.before, 0)
          /\ tmc_ret = largest_entry(tmc_call.arg)
    /\ (tmc_call.fn = "tmc2209_get_microstep_resolution" /\ ~tmc_call.failed
        /\ tmc_call.after_set # -1)
       => tmc_ret = tmc_call.after_set

\* C16 (closed exactly once): when a run in which a session was opened has
\* reached its outcome, esp_ota_abort and esp_ota_end have been applied to
\* the session's handle exactly once in total; a failed header flush is
\* followed by one abort, not two.
C16_ClosedExactlyOnce ==
    (OutcomeReached /\ begin_calls > 0) => abort_calls + end_calls = 1

\* some call of bs is followed, later in the calls es, by a call a
Follows(es, a, bs) ==
    \E i, j \in 1..Len(es) : i < j /\ es[i] \in bs /\ es[j] = a

\* C17 (no double open, no end and abort of one session): within one
\* invocation esp_ota_begin is called at most once, and once esp_ota_end has
\* been applied to the handle, whether it succeeded or failed, esp_ota_abort
\* is never applied to it.
C17_NoEndThenAbort ==
    /\ begin_calls <= 1
    /\ ~Follows(log, "abort", { "end_ok", "end_failed" })

\* a run of update() whose finalize failed and whose clean-up has run
C17_Witness ==
    /\ engine = "update" /\ pc = "returned"
    /\ begin_calls = 1 /\ session = "end_failed" /\ client = "cleaned"

\* C18 (commit only with a session): esp_ota_end is only ever applied to a
\* session opened by a successful esp_ota_begin of this run, after the stream
\* classifier reported transfer-complete, and esp_ota_set_boot_partition is
\* only called in a run whose verdict was proceed.
C18_CommitOnlyWithSession ==
    /\ end_calls > 0 => (begin_calls > 0 /\ verdict = "proceed" /\ transfer_complete)
    /\ (Count(log, "set_boot") + Count(log, "set_boot_failed") > 0)
           => (verdict = "proceed" /\ transfer_complete)

\* every call of a in the calls es comes right after a call of b
RightAfter(es, a, b) ==
    \A j \in 1..Len(es) : es[j] = a => (j > 1 /\ es[j - 1] = b)

\* C19 (commit ordering): esp_ota_set_boot_partition is called only right
\* after an esp_ota_end that returned success, and the restart of the success
\* path only right after an esp_ota_set_boot_partition that returned success;
\* a failed finalize leaves the boot selector alone, and a failed
\* esp_ota_set_boot_partition is not followed by the restart.
C19_CommitOrdering ==
    /\ RightAfter(log, "set_boot", "end_ok")
    /\ RightAfter(log, "set_boot_failed", "end_ok")
    /\ RightAfter(log, "restart", "set_boot")
    /\ Count(log, "end_failed") > 0 =>
           /\ Count(log, "set_boot") + Count(log, "set_boot_failed") = 0
           /\ boot_selector = "running"
    /\ Count(log, "set_boot_failed") > 0 =>
           (Count(log, "restart") = 0 /\ ~("updated-and-rebooting" \in outcomes))

\* the success path was taken to its end: finalize, boot selector, restart
C19_Witness ==
    /\ pc = "restarted" /\ Count(log, "restart") = 1
    /\ boot_selector = "update" /\ "updated-and-rebooting" \in outcomes

\* C20 (a write failure is fatal): once esp_ota_write has failed, on the
\* header flush or on a body chunk, nothing more is written, finalized or
\* committed, and when the run has ended the session is aborted, the boot
\* selector is untouched and the outcome is failed.
C20_WriteFailureFatal ==
    Count(log, "write_failed") > 0 =>
        /\ Count(log, "write_failed") = 1
        /\ ~Follows(log, "write", { "write_failed" })
        /\ Count(log, "end_ok") + Count(log, "end_failed") = 0
        /\ Count(log, "set_boot") + Count(log, "set_boot_failed") = 0
        /\ boot_selector = "running"
        /\ OutcomeReached =>
               (session = "aborted" /\ abort_calls >= 1 /\ outcomes = { "failed" })

\* a body chunk failed to write after the header flush and an earlier chunk
\* were written, and the run has ended
C20_Witness ==
    /\ OutcomeReached
    /\ Follows(log, "write_failed", { "write" })
    /\ flash_written > 0 /\ session = "aborted"

\* C21 (a negative read is fatal): after esp_http_client_read has returned a
\* negative value, before or after the header was resolved and whatever
\* zero_read_count is, no further read is issued, and when the run has ended
\* no session is left open and the outcome is failed.
C21_NegativeReadFatal ==
    last_read = "negative" =>
        /\ pc # "loop"
        /\ OutcomeReached => (session # "open" /\ outcomes = { "failed" })

\* the class the policy table gives a zero-length read with no
\* connection-reset signal: header resolved or not, transport complete or
\* not, the count after the increment below the ceiling or not
ZeroReadTable(resolved, complete, below) ==
    CASE ~resolved /\ complete -> "eof_before_header"
      [] ~resolved /\ ~complete /\ below -> "transient"
      [] ~resolved /\ ~complete /\ ~below -> "too_many_zero_reads"
      [] resolved /\ complete -> "transfer_complete"
      [] resolved /\ ~complete /\ below -> "transient"
      [] resolved /\ ~complete /\ ~below -> "too_many_zero_reads"

\* C22 (zero-read policy table): a zero-length read with no connection-reset
\* signal is classified as the table says, whatever the header state, the
\* transport's answer and the count, and the engine acts on the class: it
\* reads again on transient, goes to the commit on transfer complete, and
\* ends the run as failed on the two fatal classes.
C22_ZeroReadPolicy ==
    /\ \A resolved, complete \in BOOLEAN, count \in 1..(max_zero_reads + 1) :
           zero_read_class(resolved, complete, "none", count)
               = ZeroReadTable(resolved, complete, count < max_zero_reads)
    /\ (last_read = "zero" /\ ~connection_closed(errno)) =>
           LET class == ZeroReadTable(image_header_was_checked,
                                      is_complete_data_received,
                                      zero_read_count < max_zero_reads)
           IN CASE class = "transient" -> pc = "loop"
                [] class = "transfer_complete" ->
                       transfer_complete /\ pc # "loop"
                [] OTHER -> pc # "loop" /\ "failed" \in outcomes

\* the ceiling was reached by zero-length reads after the header was resolved,
\* with data still to come and no connection-reset signal
C22_Witness ==
    /\ last_read = "zero" /\ errno = "none"
    /\ image_header_was_checked /\ ~is_complete_data_received
    /\ zero_read_count = max_zero_reads
    /\ pc # "loop" /\ "failed" \in outcomes

\* C23 (connection reset is fatal): a zero-length read after the header was
\* resolved, with errno ECONNRESET or ENOTCONN, ends the read loop as failed
\* even when the transport reports the data complete and the count is below
\* the ceiling; the run then never finalizes and never sets the boot selector.
C23_ConnectionResetFatal ==
    ( /\ last_read = "zero" /\ image_header_was_checked
      /\ errno \in { "ECONNRESET", "ENOTCONN" } ) =>
        /\ pc # "loop"
        /\ ~transfer_complete
        /\ "failed" \in outcomes
        /\ end_calls = 0
        /\ Count(log, "set_boot") + Count(log, "set_boot_failed") = 0
        /\ boot_selector = "running"
        /\ Count(log, "restart") = 0

\* the connection was reset at the first zero-length read after the whole
\* image had been received, and the run has ended
C23_Witness ==
    /\ last_read = "zero" /\ image_header_was_checked
    /\ errno \in { "ECONNRESET", "ENOTCONN" }
    /\ is_complete_data_received /\ zero_read_count = 1
    /\ OutcomeReached /\ session = "aborted"

\* C24 (zero_read_count): the counter stays within 0..max_zero_reads, every
\* positive read resets it to 0, and once it equals the ceiling the read loop
\* has ended: no further read is issued.
C24_ZeroReadCount ==
    /\ zero_read_count \in 0..max_zero_reads
    /\ last_read = "positive" => zero_read_count = 0
    /\ zero_read_count = max_zero_reads => pc # "loop"

\* the ceiling was reached by zero-length reads while the header was still
\* being accumulated, after a positive read had delivered a part of it
C24_Witness ==
    /\ last_read = "zero" /\ zero_read_count = max_zero_reads
    /\ ~image_header_was_checked /\ header_accumulated > 0
    /\ pc # "loop"

\* fill levels of the header buffer, up to its capacity, and chunk lengths,
\* up to a full read buffer, at which the accumulator is tried
FillLevels ==
    { 0, has_complete_header_min_size, OTA_FILE_HEADER_BUFFER_SIZE - OTA_BUFFER_SIZE,
      OTA_FILE_HEADER_BUFFER_SIZE - OTA_BUFFER_SIZE + 1,
      OTA_FILE_HEADER_BUFFER_SIZE - 1, OTA_FILE_HEADER_BUFFER_SIZE }

ChunkLengths == { 1, OTA_BUFFER_SIZE - 1, OTA_BUFFER_SIZE }

\* C25 (header_filled): header_accumulated never exceeds the capacity of the
\* header buffer, and a chunk is copied into the buffer only when it ends
\* within the capacity, whatever the fill level it arrives at.
C25_HeaderFilled ==
    /\ header_accumulated \in 0..OTA_FILE_HEADER_BUFFER_SIZE
    /\ \A a \in FillLevels \cup { header_accumulated }, n \in ChunkLengths :
           /\ accumulate(a, n) <= OTA_FILE_HEADER_BUFFER_SIZE
           /\ accumulate(a, n) \in { a, a + n }

\* the header buffer holds more than the threshold: the gate ran on a buffer
\* that the last chunk had taken past it
C25_Witness ==
    /\ image_header_was_checked
    /\ header_accumulated > has_complete_header_min_size
    /\ binary_file_length >= header_accumulated

\* C26 (the gate runs once, at the threshold): parse_firmware_header is
\* called at most once, not before header_accumulated has reached the
\* threshold and in the very read that takes it there, and once it has been
\* called nothing more is appended to the header buffer.
C26_GateOnceAtThreshold ==
    /\ [](/\ gate_calls \in { 0, 1 }
          /\ (gate_calls = 1) = (verdict # "none")
          /\ (gate_calls = 1) = has_complete_header(header_accumulated)
          /\ header_accumulated < has_complete_header_min_size + OTA_BUFFER_SIZE)
    /\ [][gate_calls = 1 => header_accumulated' = header_accumulated]_vars

\* the gate ran, said proceed, and later chunks went to flash and not to the
\* header buffer
C26_Witness ==
    /\ gate_calls = 1 /\ verdict = "proceed" /\ image_header_was_checked
    /\ received > header_accumulated /\ flash_written = received
    /\ pc = "loop"

\* C27 (a session only on proceed): a write session exists only if the
\* version gate ran on a header buffer that had reached the threshold and
\* took the proceed branch, it is opened against the partition
\* esp_ota_get_next_update_partition returned, and a run whose verdict is skip
\* or reject opens no session and writes nothing to flash.
C27_SessionOnlyOnProceed ==
    /\ session # "none" =>
           /\ verdict = "proceed" /\ gate_calls = 1
           /\ has_complete_header(header_accumulated)
           /\ session_partition = update_partition
    /\ session = "none" => session_partition = "none"
    /\ verdict \in { "skip", "reject" } =>
           /\ begin_calls = 0 /\ flash_written = 0
           /\ Count(log, "write") + Count(log, "write_failed") = 0

\* a session is open against the update partition and the header has been
\* flushed to it
C27_Witness ==
    /\ session = "open" /\ session_partition = update_partition
    /\ verdict = "proceed" /\ flash_written >= has_complete_header_min_size

\* C28 (stream order): while a session is open and no write has failed, the
\* bytes passed to esp_ota_write, in call order, are the bytes of the positive
\* reads received so far, in arrival order: every write began at the image
\* offset flash had reached and nothing read is left unwritten; the first
\* write is the whole accumulated header buffer.
C28_StreamOrder ==
    /\ []((session = "open" /\ Count(log, "write_failed") = 0) =>
              (stream_in_order /\ flash_written = received))
    /\ [][(session = "none" /\ session' = "open") =>
              (flash_written' = header_accumulated' /\ header_accumulated' = received')]_vars

\* the header flush and at least two body chunks have been written, and the
\* loop is about to read again
C28_Witness ==
    /\ session = "open" /\ pc = "loop" /\ stream_in_order
    /\ flash_written >= header_accumulated + OTA_BUFFER_SIZE + OTA_BUFFER_SIZE \div 2
    /\ flash_written = received

\* a fatal classification has occurred in this run
Fatal == outcomes \cap { "failed", "rejected-known-bad" } # {}

\* C29 (no retry): once a fatal classification has occurred the engine is
\* out of its read loop for good, and no step it takes afterwards reads from
\* the network, opens a session, writes to flash, finalizes or touches the
\* boot selector; aborting the session is the only storage call that may
\* follow.
C29_NoRetry ==
    /\ [](Fatal => pc \notin { "boot", "start", "loop" })
    /\ [][Fatal =>
            /\ received' = received /\ last_read' = last_read
            /\ begin_calls' = begin_calls /\ flash_written' = flash_written
            /\ Count(log', "write_failed") = Count(log, "write_failed")
            /\ end_calls' = end_calls
            /\ set_boot_calls' = set_boot_calls
            /\ Count(log', "set_boot_failed") = Count(log, "set_boot_failed")
            /\ boot_selector' = boot_selector]_vars

\* update() has returned after a negative read with a session open: the
\* clean-up aborted the session and nothing else followed the fatal read
C29_Witness ==
    /\ Fatal /\ engine = "update" /\ pc = "returned"
    /\ last_read = "negative" /\ abort_calls = 1 /\ session = "aborted"

\* C30 (session abort): when a run has ended on a failure path that did not
\* reach finalize, esp_ota_abort was not called if no session had been
\* opened and was called, leaving the session aborted, if one had; and on
\* neither path was esp_ota_set_boot_partition called or the boot selector
\* changed.
C30_AbortWhenOpen ==
    (Fatal /\ OutcomeReached /\ end_calls = 0) =>
        /\ begin_calls = 0 => abort_calls = 0
        /\ begin_calls > 0 => (abort_calls >= 1 /\ session = "aborted")
        /\ Count(log, "set_boot") + Count(log, "set_boot_failed") = 0
        /\ boot_selector = "running"

\* C31 (termination): when every call returns, and the image being finite
\* the transport delivers finitely many positive-length reads, every run
\* leaves the read loop and reaches a terminal outcome; a zero-length read
\* takes it out of the loop at the latest when it is the max_zero_reads-th in
\* a row, and a positive-length read that is accepted never does: the engine
\* reads again.
C31_Termination ==
    /\ <>OutcomeReached
    /\ [](zero_read_count = max_zero_reads => pc # "loop")
    /\ []((last_read = "positive" /\ outcomes = {}) => pc = "loop")

\* the run left the loop on the max_zero_reads-th zero-length read in a row,
\* with the transport not complete, and has reached its terminal outcome
C31_Witness ==
    /\ OutcomeReached /\ last_read = "zero" /\ errno = "none"
    /\ zero_read_count = max_zero_reads /\ ~is_complete_data_received
    /\ outcomes = { "failed" }

\* C32 as stated (header resolved whatever the verdict): once the version
\* gate has been consulted image_header_was_checked is true, whether the
\* verdict is proceed, skip or reject.
C32_Original ==
    gate_calls > 0 => image_header_was_checked

\* C32 (header resolved on proceed only): image_header_was_checked becomes
\* true only when the version gate returned 1, that is on a proceed verdict
\* with the session opened and the header flushed; after a skip, a reject or
\* a failed proceed it stays false and the read loop is left at once, so that
\* the gate is not consulted again.
C32_HeaderResolved ==
    /\ image_header_was_checked =>
           /\ gate_calls = 1 /\ verdict = "proceed"
           /\ begin_calls = 1 /\ flash_written >= header_accumulated
    /\ (gate_calls > 0 /\ ~image_header_was_checked) =>
           /\ pc # "loop"
           /\ verdict \in { "skip", "reject" } \/ flash_written = 0
    /\ (verdict = "proceed" /\ flash_written > 0) => image_header_was_checked

\* the gate was consulted and said skip: the header is not marked as checked
\* and the loop has been left
C32_Witness ==
    /\ gate_calls = 1 /\ verdict = "skip"
    /\ ~image_header_was_checked /\ same_version_detected /\ pc # "loop"

\* C33 (no division by zero): the end-of-session callback of the ping never
\* divides by zero, whatever the session's result, a session without a single
\* reply included.
C33_NoDivisionByZero == divisor # 0

\* C34 (the header buffer cannot overflow): a read delivers at most
\* OTA_BUFFER_SIZE bytes and the gate runs as soon as the threshold is
\* reached, so header_accumulated stays below threshold + OTA_BUFFER_SIZE,
\* which is within the capacity; every chunk that can arrive while the header
\* is being accumulated fits, so the overflow branch is never taken; and the
\* buffer flushed when the session is opened exceeds the threshold by at most
\* OTA_BUFFER_SIZE - 1 bytes, which a full read arriving one byte short of
\* the threshold makes it do.
C34_NoHeaderOverflow ==
    /\ has_complete_header_min_size + OTA_BUFFER_SIZE <= OTA_FILE_HEADER_BUFFER_SIZE
    /\ header_accumulated < has_complete_header_min_size + OTA_BUFFER_SIZE
    /\ (pc = "loop" /\ ~image_header_was_checked) =>
           /\ ~has_complete_header(header_accumulated)
           /\ \A rd \in ReadOutcomes(total - received, FALSE) :
                  rd.n > 0 => /\ rd.n <= OTA_BUFFER_SIZE
                              /\ fits_header_buffer(header_accumulated, rd.n)
    /\ image_header_was_checked =>
           /\ header_accumulated >= has_complete_header_min_size
           /\ header_accumulated - has_complete_header_min_size < OTA_BUFFER_SIZE
           /\ flash_written >= header_accumulated
    /\ accumulate(has_complete_header_min_size - 1, OTA_BUFFER_SIZE)
           = has_complete_header_min_size + OTA_BUFFER_SIZE - 1

\* the session was opened with a header buffer that a full read had taken
\* past the threshold
C34_Witness ==
    /\ session = "open" /\ image_header_was_checked
    /\ header_accumulated > has_complete_header_min_size + OTA_BUFFER_SIZE \div 2
    /\ header_accumulated < has_complete_header_min_size + OTA_BUFFER_SIZE
    /\ flash_written = header_accumulated

\* C35 (ESP_OK means nothing was written): when update() returns ESP_OK no
\* write session was opened in the run and no byte was written to flash,
\* also when the transport answers the completeness query made after the
\* loop differently from the one that ended the loop.
C35_OkMeansUntouched ==
    (engine = "update" /\ pc = "returned" /\ update_return(err) = 0) =>
        (begin_calls = 0 /\ flash_written = 0)

\* C36 (verdict from read descriptors only): a verdict that can only come
\* out of a comparison with a descriptor is never produced by a descriptor
\* that was not read: with the running descriptor unread the verdict is not
\* skip, and with an existing last-invalid partition whose descriptor is
\* unread the verdict is not reject.
C36_UnreadNeverCompared ==
    /\ (verdict # "none" /\ ~running_desc_ok) => verdict # "skip"
    /\ (verdict # "none" /\ last_invalid # NoPartition /\ ~invalid_desc_ok)
           => verdict # "reject"

\* the calls that free the HTTP client: http_cleanup(client), and the bare
\* esp_http_client_cleanup(client) of ota_task when the open failed
cleanups(l) == Count(l, "http_cleanup") + Count(l, "client_cleanup")

\* the next step of the engine hands the client to esp_http_client_read or to
\* esp_http_client_is_complete_data_received
uses_client ==
    \/ pc = "loop"
    \/ pc = "finish" /\ engine = "update" /\ err = "ESP_OK"
    \/ pc = "finish" /\ engine = "ota_task" /\ ~same_version_detected
                     /\ ~connection_error

\* the engine is over: update() returned or ota_task made its last call
EngineOver == EngineInvoked /\ pc \notin { "start", "loop", "finish" }

\* C37 as stated, with every terminal call of ota_task counted: whenever the
\* engine is over with a non-NULL client, update() having returned, the client
\* was cleaned up exactly once.
C37_Original ==
    (EngineOver /\ client # "null"
     /\ ~(engine = "update" /\ Count(log, "restart") > 0))
        => cleanups(log) = 1

\* C37 (client cleaned once, never used afterwards): the client is never
\* cleaned up twice and is cleaned exactly when a clean-up call was made; a
\* cleaned client is never handed to a read or a completeness query; and when
\* the engine is over without esp_restart, with a non-NULL client, exactly one
\* clean-up call was made, while the path into esp_restart makes none.
C37_ClientCleanedOnce ==
    /\ cleanups(log) <= 1
    /\ (client = "cleaned") = (cleanups(log) = 1)
    /\ client = "cleaned" => ~uses_client
    /\ (EngineOver /\ client # "null" /\ Count(log, "restart") = 0)
           => cleanups(log) = 1
    /\ Count(log, "restart") > 0 => cleanups(log) = 0

\* the same-version exit of ota_task: cleaned in the loop, then idle without
\* another call on the client
C37_Witness ==
    /\ engine = "ota_task" /\ pc = infinite_loop /\ same_version_detected
    /\ client = "cleaned" /\ cleanups(log) = 1

\* the wait of network_init timed out
WaitTimedOut == net_pc \in { "returned", "deinit" } /\ net_err = "ESP_ERR_TIMEOUT"

\* C38 (network_init and the Wi-Fi semaphore): network_init returns ESP_OK
\* only if the got-IP callback gave the semaphore before the wait was over;
\* after a timed-out wait it has returned -ESP_ERR_TIMEOUT, g_sta_netif is
\* NULL and the semaphore still exists; and a got-IP event after that only
\* gives the semaphore.
C38_NetworkInit ==
    /\ [](/\ (net_pc = "returned" /\ net_ret = 0)
              => (gave_in_time /\ net_err = "ESP_OK" /\ g_sta_netif = "sta")
          /\ WaitTimedOut
              => /\ net_ret = 0 - 263
                 /\ g_sta_netif = "NULL"
                 /\ g_wifi_semaphore # "NULL"
                 /\ ~gave_in_time)
    /\ [][(WaitTimedOut /\ wifi' = "got_ip" /\ wifi # "got_ip")
            => /\ g_wifi_semaphore' = "given"
               /\ UNCHANGED << net_pc, net_ret, net_err, g_sta_netif,
                               gave_in_time, net_args, net_clock >>]_vars

\* the wait timed out after a disconnect and a reconnect, and the got-IP
\* event came late: the semaphore is given, the interface is gone
C38_Witness ==
    /\ WaitTimedOut /\ net_ret = 0 - 263 /\ wifi = "got_ip"
    /\ g_wifi_semaphore = "given" /\ g_sta_netif = "NULL"

\* some IRUN and VSENSE deliver no more than run_current_ma through
\* r_sense_mohm: the request is achievable
Achievable(run_current_ma, r_sense_mohm) ==
    \E i \in 0..IRUN_OR_IHOLD_MAX, v \in { 0, 1 } :
        rms_current_milliamps(i, v, r_sense_mohm) <= run_current_ma

\* C39 (never more current than requested): after tmc2209_set_current has
\* succeeded, the current that the IRUN and VSENSE written deliver is at most
\* run_current_ma whenever the request is achievable, and the value
\* (run_current_ma * 31 / max_current) - 1 was neither below 0 nor above 31.
C39_NeverMoreThanRequested ==
    (cur_call.done /\ ~cur_call.failed)
    => /\ Achievable(cur_call.run_current_ma, cur_call.r_sense_mohm)
            => rms_current_milliamps(IRUN(ihold_irun), VSENSE(chopconf),
                                     cur_call.r_sense_mohm)
               <= cur_call.run_current_ma
       /\ i_run_of(cur_call.quotient) >= 0
       /\ i_run_of(cur_call.quotient) <= IRUN_OR_IHOLD_MAX

====
